---- MODULE Spec2Model ----
(***************************************************************************)
(* Model of the BlockyHomework ledger: Transaction, Wallet, Mempool, Block *)
(* and Blockchain (src/src/models).                                        *)
(*                                                                         *)
(* Two ledgers exist: "local", driven through the whole API with valid and *)
(* defective inputs, and "peer", an independent Blockchain instance that   *)
(* receives transactions signed by their sender's key and mines.           *)
(* local.replace_chain is called with the peer's chain or with a chain of  *)
(* hand-built Block objects.                                               *)
(*                                                                         *)
(* The local node also runs a ConsensusManager (consensus) whose rounds    *)
(* are fed the answers of arbitrary peers, and a BlockchainServer (server) *)
(* with a background mining thread.  pc and frame hold the position and    *)
(* the local variables of the threads of the node where a specification    *)
(* interleaves them.  p2p is the P2PManager of the node with its two       *)
(* loops, client a BlockchainClient, and remote the nodes they talk to:    *)
(* whether each answers and the node list it reports.                      *)
(*                                                                         *)
(* Abstractions.  SHA-256 is collision free: a digest is the record of the *)
(* canonical fields it was computed from.  The number of leading zero hex  *)
(* characters of a block digest is the deterministic function hex_zeros.   *)
(* An ECDSA signature is the pair (signing key, signed message).  Amounts  *)
(* are integers counting 1/AmountOne coins; time.time() is the integer     *)
(* clock now.                                                              *)
(***************************************************************************)
EXTENDS Integers, Sequences, FiniteSets, TLC

VARIABLES chain, mempool, difficulty, now, last,
          consensus, server, network, pc, frame, p2p, remote, client

vars == <<chain, mempool, difficulty, now, last,
          consensus, server, network, pc, frame, p2p, remote, client>>

\* the ConsensusManager and BlockchainServer objects of the local node, what
\* the network answers to its BlockchainClient, and the position and the
\* local variables of each of its threads
node_vars == <<consensus, server, network, pc, frame, p2p, remote, client>>

\* the P2PManager object of the local node, the remote nodes it talks to, and
\* a BlockchainClient
p2p_vars == <<p2p, remote, client>>

(***************************** bounds *************************************)
\* time.time() takes the values 0..MaxTime
MaxTime == 1
\* Spec: mine_block is not called on a chain that already holds MaxChain blocks
MaxChain == 2
\* SpecSync, SpecLoaded: the same, for MaxSyncChain blocks
MaxSyncChain == 3
\* hand-built candidate chains hold 1..MaxCandidate blocks
MaxCandidate == 3
\* Mempool.max_size (1000 in mempool.py:8), scaled down
max_size == 2
\* max_transactions of get_transactions_for_block (100 in mempool.py:64), scaled down
max_transactions == 1
\* amounts are counted in 1/AmountOne coins
AmountOne == 2
\* hex_zeros repeats with this period in the proof
PowPeriod == 3
\* at most MaxPeers peers answer in a consensus round
MaxPeers == 3
\* _perform_consensus_check is entered at most MaxRounds times
MaxRounds == 2
\* SpecPeers: time.time() takes the values 0, 60, ... up to MaxClock seconds
MaxClock == 180
\* MAX_CONNECTIONS (10 in config/constants.py:12), scaled down
MAX_CONNECTIONS == 2
\* discovery offers no more nodes once connections_made reached this
MaxConnectionsMade == 2
\* broadcast_message is not called once messages_sent reached this
MaxMessagesSent == 2
\* _make_request is not called once it returned MaxRequests times
MaxRequests == 3
\* mine_proof_of_work is called with a difficulty of 0..MaxDifficulty
MaxDifficulty == 5
\* calls of the client are made while its connection_errors are at most this
MaxConnectionErrors == 4

(*************************** constants ************************************)
MINING_DIFFICULTY == 4
BLOCK_REWARD == 10 * AmountOne
\* length of a SHA-256 hex digest
DigestLen == 64
\* the string of DigestLen zero characters
GENESIS_BLOCK_HASH == [zeros |-> DigestLen]

Nodes == {"local", "peer"}
Keys == {"k1", "k2"}
None == [none |-> TRUE]

\* BlockchainClient.max_retries and retry_delay (seconds), set by __init__
max_retries == 3
retry_delay == 1

(************************** wallet.py *************************************)
\* Wallet.__init__: the hex encoding of the 64-byte verifying key
public_key(k) == IF k = "k1" THEN "pub1" ELSE "pub2"

\* Wallet.generate_address: SHA-256 hex digest (32 bytes) of the public key JSON
generate_address(k) == IF k = "k1" THEN "addr1" ELSE "addr2"

(************************ transaction.py **********************************)
\* Transaction.calculate_hash: digest of {sender, recipient, amount, timestamp}
Transaction_calculate_hash(tx) ==
    [sender |-> tx.sender, recipient |-> tx.recipient,
     amount |-> tx.amount, timestamp |-> tx.timestamp]

\* Transaction.__init__ at time t
Transaction(sender, recipient, amount, signature, t) ==
    LET fields == [sender |-> sender, recipient |-> recipient, amount |-> amount,
                   timestamp |-> t, signature |-> signature, hash |-> None]
    IN  [fields EXCEPT !.hash = Transaction_calculate_hash(fields)]

\* SigningKey.sign over a message
ecdsa_sign(k, msg) == [key |-> k, msg |-> msg]

\* Transaction.sign_transaction
sign_transaction(tx, k) ==
    [tx EXCEPT !.signature = ecdsa_sign(k, Transaction_calculate_hash(tx))]

\* VerifyingKey.from_string(bytes.fromhex(sender)) succeeds only on the hex
\* encoding of a curve point; a 32-byte address, "0" and plain names raise
from_string_ok(sender) == \E k \in Keys : sender = public_key(k)

\* Transaction.verify_signature
verify_signature(tx) ==
    /\ tx.signature # None
    /\ from_string_ok(tx.sender)
    /\ public_key(tx.signature.key) = tx.sender
    /\ tx.signature.msg = Transaction_calculate_hash(tx)

\* Transaction.is_valid with amount < 0 for amount <= 0
Transaction_is_valid_ZeroAmount(tx) ==
    IF tx.amount < 0 THEN FALSE
    ELSE IF tx.sender = "" \/ tx.recipient = "" THEN FALSE
    ELSE IF tx.sender = tx.recipient THEN FALSE
    ELSE verify_signature(tx)

\* Transaction.is_valid
Transaction_is_valid(tx) ==
    IF tx.amount <= 0 THEN FALSE
    ELSE IF tx.sender = "" \/ tx.recipient = "" THEN FALSE
    ELSE IF tx.sender = tx.recipient THEN FALSE
    ELSE verify_signature(tx)

\* Wallet.create_transaction at time t
create_transaction(k, recipient, amount, t) ==
    sign_transaction(Transaction(generate_address(k), recipient, amount, None, t), k)

(*************************** mempool.py ***********************************)
\* [tx.hash for tx in transactions]
Hashes(txs) == {txs[i].hash : i \in 1..Len(txs)}

\* Mempool.add_transaction without the test for a pending hash
Mempool_add_transaction_NoDuplicateCheck(pool, tx) ==
    IF ~Transaction_is_valid(tx) THEN [pool |-> pool, ret |-> FALSE]
    ELSE IF Len(pool) >= max_size THEN [pool |-> pool, ret |-> FALSE]
    ELSE [pool |-> Append(pool, tx), ret |-> TRUE]

\* Mempool.add_transaction: the new pool, and the returned flag
Mempool_add_transaction(pool, tx) ==
    IF ~Transaction_is_valid(tx) THEN [pool |-> pool, ret |-> FALSE]
    ELSE IF Len(pool) >= max_size THEN [pool |-> pool, ret |-> FALSE]
    ELSE IF tx.hash \in Hashes(pool) THEN [pool |-> pool, ret |-> FALSE]
    ELSE [pool |-> Append(pool, tx), ret |-> TRUE]

\* Mempool.remove_transaction: deletes the first entry with that hash
Mempool_remove_transaction(pool, h) ==
    IF \E i \in 1..Len(pool) : pool[i].hash = h
    THEN LET i == CHOOSE j \in 1..Len(pool) :
                    /\ pool[j].hash = h
                    /\ \A m \in 1..(j-1) : pool[m].hash # h
         IN  [pool |-> SubSeq(pool, 1, i-1) \o SubSeq(pool, i+1, Len(pool)),
              ret |-> TRUE]
    ELSE [pool |-> pool, ret |-> FALSE]

\* Mempool.clear_transactions dropping every pending transaction
Mempool_clear_transactions_All(pool, hashes) == <<>>

\* Mempool.clear_transactions
Mempool_clear_transactions(pool, hashes) ==
    SelectSeq(pool, LAMBDA tx : tx.hash \notin hashes)

\* Mempool.is_full
is_full(pool) == Len(pool) >= max_size

\* Mempool.calculate_fee without the floor of 0.001
calculate_fee_NoFloor(tx) == tx.amount

\* Mempool.calculate_fee: max(0.001, amount * 0.001), in units of 0.001/AmountOne
calculate_fee(tx) == IF tx.amount > AmountOne THEN tx.amount ELSE AmountOne

\* the sort key (fee, timestamp) compared as Python compares tuples
KeyGreater(a, b) ==
    \/ calculate_fee(a) > calculate_fee(b)
    \/ calculate_fee(a) = calculate_fee(b) /\ a.timestamp > b.timestamp

\* sorted(..., reverse=True) is stable: an entry goes before the first entry
\* of strictly smaller key, after every entry of equal key
RECURSIVE InsertByKey(_, _)
InsertByKey(sorted, tx) ==
    IF sorted = <<>> THEN <<tx>>
    ELSE IF KeyGreater(tx, Head(sorted)) THEN <<tx>> \o sorted
    ELSE <<Head(sorted)>> \o InsertByKey(Tail(sorted), tx)

RECURSIVE SortedPrefix(_, _)
SortedPrefix(pool, n) ==
    IF n = 0 THEN <<>> ELSE InsertByKey(SortedPrefix(pool, n - 1), pool[n])

\* Mempool.prioritize_transactions
prioritize_transactions(pool) == SortedPrefix(pool, Len(pool))

\* Mempool.get_transactions_for_block: prioritized[:limit] for limit >= 0
get_transactions_for_block(pool, limit) ==
    LET prioritized == prioritize_transactions(pool)
    IN  SubSeq(prioritized, 1,
               IF Len(prioritized) < limit THEN Len(prioritized) ELSE limit)

(**************************** block.py ************************************)
\* Block.calculate_hash: digest of to_dict(), which lists every transaction's
\* to_dict() (its six fields) but not the block's own hash field
Block_calculate_hash(b) ==
    [index |-> b.index, timestamp |-> b.timestamp, transactions |-> b.transactions,
     proof |-> b.proof, previous_hash |-> b.previous_hash]

\* Block.__init__ at time t
Block(index, transactions, proof, previous_hash, t) ==
    LET fields == [index |-> index, timestamp |-> t, transactions |-> transactions,
                   proof |-> proof, previous_hash |-> previous_hash, hash |-> None]
    IN  [fields EXCEPT !.hash = Block_calculate_hash(fields)]

\* number of leading '0' characters of the hex digest of a block
hex_zeros(digest) ==
    LET m == (digest.proof + digest.index + digest.timestamp
              + Len(digest.transactions)) % PowPeriod
    IN  IF m = 0 THEN DigestLen - 1 ELSE m - 1

\* self.hash[:difficulty] == '0' * difficulty
meets_target(digest, d) == d <= DigestLen /\ hex_zeros(digest) >= d

\* Block.mine_proof_of_work: the block as the search leaves it
RECURSIVE mine_proof_of_work(_, _)
mine_proof_of_work(b, d) ==
    LET stepped == [b EXCEPT !.proof = b.proof + 1]
        hashed  == [stepped EXCEPT !.hash = Block_calculate_hash(stepped)]
    IN  IF meets_target(hashed.hash, d) THEN hashed
        ELSE mine_proof_of_work(hashed, d)

\* Block.is_valid
Block_is_valid(b) ==
    IF b.hash # Block_calculate_hash(b) THEN FALSE
    ELSE IF b.proof <= 0 THEN FALSE
    ELSE \A i \in 1..Len(b.transactions) : Transaction_is_valid(b.transactions[i])

(************************** blockchain.py *********************************)
\* Blockchain.create_genesis_block at time t
create_genesis_block(t) ==
    <<Block(0, <<Transaction("0", "zero64", 0, None, t)>>, 100, GENESIS_BLOCK_HASH, t)>>

\* Blockchain.add_transaction: the new pool, and the returned flag
Blockchain_add_transaction(pool, tx) ==
    IF ~Transaction_is_valid(tx) THEN [pool |-> pool, ret |-> FALSE]
    ELSE Mempool_add_transaction(pool, tx)

\* Blockchain.get_latest_block
get_latest_block(c) == c[Len(c)]

\* Mempool.get_transactions(): a copy of the pending list
get_transactions(pool) == pool

\* sum of the nine timestamp deltas inside the last ten blocks
RECURSIVE DeltaSum(_, _)
DeltaSum(blocks, i) ==
    IF i <= 1 THEN 0
    ELSE (blocks[i].timestamp - blocks[i-1].timestamp) + DeltaSum(blocks, i - 1)

\* Blockchain.adjust_difficulty with self.difficulty - 1 in place of
\* max(1, self.difficulty - 1)
adjust_difficulty_NoFloor(c, d) ==
    IF Len(c) % 10 = 0
    THEN LET total == DeltaSum(SubSeq(c, Len(c) - 9, Len(c)), 10)
         IN  IF total * 2 < 60 * 9 THEN d + 1
             ELSE IF total > 60 * 2 * 9 THEN d - 1
             ELSE d
    ELSE d

\* Blockchain.adjust_difficulty: avg < 30 and avg > 120, with avg = sum / 9
adjust_difficulty(c, d) ==
    IF Len(c) % 10 = 0
    THEN LET last_ten_blocks == SubSeq(c, Len(c) - 9, Len(c))
             total == DeltaSum(last_ten_blocks, 10)
         IN  IF total * 2 < 60 * 9 THEN d + 1
             ELSE IF total > 60 * 2 * 9 THEN (IF d - 1 > 1 THEN d - 1 ELSE 1)
             ELSE d
    ELSE d

\* Blockchain.mine_block, lines 47-53: the block built on the latest block
mine_new_block(c, pool, t) ==
    LET latest_block == get_latest_block(c)
    IN  Block(latest_block.index + 1,
              get_transactions_for_block(pool, max_transactions), 0,
              latest_block.hash, t)

\* one pass of the loop of Block.mine_proof_of_work that keeps the old hash
search_iteration_StaleHash(b) == [b EXCEPT !.proof = b.proof + 1]

\* one pass of the loop of Block.mine_proof_of_work
search_iteration(b) ==
    LET stepped == [b EXCEPT !.proof = b.proof + 1]
    IN  [stepped EXCEPT !.hash = Block_calculate_hash(stepped)]

\* Blockchain.mine_block, lines 57-72, on the chain, mempool and difficulty
\* as they are when the search has returned: hash, reward, append, clear
mine_commit_block(c, pool, d, searched, miner_address, t) ==
    LET hashed == [searched EXCEPT !.hash = Block_calculate_hash(searched)]
        reward_transaction ==
            Transaction("0", miner_address, BLOCK_REWARD, None, t)
        final == [hashed EXCEPT !.transactions = <<reward_transaction>> \o @]
        appended == Append(c, final)
    IN  [chain |-> appended,
         pool |-> Mempool_clear_transactions(pool, Hashes(Tail(final.transactions))),
         difficulty |-> adjust_difficulty(appended, d),
         ret |-> final]

\* Blockchain.mine_block from line 47 on: build, search, reward, append
mine_pending(c, pool, d, miner_address, t) ==
    LET searched == mine_proof_of_work(mine_new_block(c, pool, t), d)
    IN  IF searched.proof # 0
        THEN mine_commit_block(c, pool, d, searched, miner_address, t)
        ELSE [chain |-> c, pool |-> pool, difficulty |-> d, ret |-> None]

\* Blockchain.mine_block without the test for an empty mempool
Blockchain_mine_block_NoEmptyCheck(c, pool, d, miner_address, t) ==
    mine_pending(c, pool, d, miner_address, t)

\* Blockchain.mine_block at time t: the new chain, pool and difficulty, and
\* the returned block (None when nothing is pending)
Blockchain_mine_block(c, pool, d, miner_address, t) ==
    IF get_transactions(pool) = <<>>
    THEN [chain |-> c, pool |-> pool, difficulty |-> d, ret |-> None]
    ELSE mine_pending(c, pool, d, miner_address, t)

\* Blockchain.validate_chain without the call of Block.is_valid
Blockchain_validate_chain_NoIsValid(c) ==
    \A i \in 2..Len(c) :
        /\ c[i].previous_hash = c[i-1].hash
        /\ c[i].hash = Block_calculate_hash(c[i])

\* Blockchain.validate_chain
Blockchain_validate_chain(c) ==
    \A i \in 2..Len(c) :
        /\ c[i].previous_hash = c[i-1].hash
        /\ Block_is_valid(c[i])
        /\ c[i].hash = Block_calculate_hash(c[i])

\* Blockchain.replace_chain with < for <= in the length test
Blockchain_replace_chain_AcceptsEqual(c, new_chain) ==
    IF Len(new_chain) < Len(c) THEN FALSE
    ELSE IF ~(\A i \in 1..Len(new_chain) : Block_is_valid(new_chain[i])) THEN FALSE
    ELSE IF \E i \in 2..Len(new_chain) :
                new_chain[i].previous_hash # new_chain[i-1].hash THEN FALSE
    ELSE TRUE

\* Blockchain.replace_chain: the flag it returns
Blockchain_replace_chain(c, new_chain) ==
    IF Len(new_chain) <= Len(c) THEN FALSE
    ELSE IF ~(\A i \in 1..Len(new_chain) : Block_is_valid(new_chain[i])) THEN FALSE
    ELSE IF \E i \in 2..Len(new_chain) :
                new_chain[i].previous_hash # new_chain[i-1].hash THEN FALSE
    ELSE TRUE

\* the inner loop of Blockchain.get_balance over the first n transactions
RECURSIVE balance_of_transactions(_, _, _)
balance_of_transactions(txs, n, address) ==
    IF n = 0 THEN 0
    ELSE balance_of_transactions(txs, n - 1, address)
         + (IF txs[n].recipient = address THEN txs[n].amount ELSE 0)
         - (IF txs[n].sender = address THEN txs[n].amount ELSE 0)

\* the outer loop of Blockchain.get_balance over the first n blocks
RECURSIVE balance_of_blocks(_, _, _)
balance_of_blocks(c, n, address) ==
    IF n = 0 THEN 0
    ELSE balance_of_blocks(c, n - 1, address)
         + balance_of_transactions(c[n].transactions, Len(c[n].transactions), address)

\* Blockchain.get_balance looking at the latest block only
Blockchain_get_balance_LatestBlock(c, address) ==
    balance_of_transactions(c[Len(c)].transactions,
                            Len(c[Len(c)].transactions), address)

\* Blockchain.get_balance
Blockchain_get_balance(c, address) == balance_of_blocks(c, Len(c), address)

(************************** consensus.py **********************************)
\* Block.to_dict: the five fields without the stored hash; a key that is not
\* there reads as None through dict.get
Block_to_dict(b) == [b EXCEPT !.hash = None]

\* the default '' of status_data.get('latest_block', {}).get('hash', '')
EmptyString == [empty |-> TRUE]

\* the key (chain_length, latest_block_hash) of a peer's answer
GroupKey(peer_info) == <<peer_info.chain_length, peer_info.latest_block_hash>>

\* the keys of chain_groups in the order a dict keeps them: first insertion
RECURSIVE GroupKeys(_, _)
GroupKeys(peers, n) ==
    IF n = 0 THEN <<>>
    ELSE LET before == GroupKeys(peers, n - 1)
         IN  IF \E i \in 1..Len(before) : before[i] = GroupKey(peers[n])
             THEN before ELSE Append(before, GroupKey(peers[n]))

\* chain_groups without the test of peer_info['is_valid']
chain_groups_AllPeers(peer_chains) ==
    LET keys == GroupKeys(peer_chains, Len(peer_chains))
    IN  [i \in 1..Len(keys) |->
            [key |-> keys[i],
             group |-> SelectSeq(peer_chains, LAMBDA p : GroupKey(p) = keys[i])]]

\* chain_groups of _analyze_consensus as the list of its items
chain_groups(peer_chains) ==
    LET valid == SelectSeq(peer_chains, LAMBDA p : p.is_valid)
        keys == GroupKeys(valid, Len(valid))
    IN  [i \in 1..Len(keys) |->
            [key |-> keys[i],
             group |-> SelectSeq(valid, LAMBDA p : GroupKey(p) = keys[i])]]

\* max(items, key=...) taking the first item whatever its group size
MostSupported_First(items) == items[1]

\* max(items, key=lambda x: len(x[1])): the first item of greatest group size
MostSupported(items) ==
    items[CHOOSE i \in 1..Len(items) :
            /\ \A j \in 1..Len(items) : Len(items[j].group) <= Len(items[i].group)
            /\ \A j \in 1..(i-1) : Len(items[j].group) < Len(items[i].group)]

\* our_group_size / total_peers >= self.consensus_threshold
consensus_threshold_percent == 51
HasConsensus(our_group_size, total_peers) ==
    our_group_size * 100 >= consensus_threshold_percent * total_peers

\* ConsensusManager._analyze_consensus: the decision, and whether
\* forks_detected was incremented
no_action == [action |-> "no_action", new_chain |-> <<>>, chains |-> <<>>,
              fork |-> FALSE]
ConsensusManager_analyze_consensus(peer_chains, c) ==
    IF peer_chains = <<>> THEN no_action
    ELSE LET local_length == Len(c)
             local_hash == get_latest_block(c).hash
             groups == chain_groups(peer_chains)
         IN  IF groups = <<>> THEN no_action
             ELSE LET longest_length ==
                          CHOOSE l \in {groups[i].key[1] : i \in 1..Len(groups)} :
                              \A i \in 1..Len(groups) : groups[i].key[1] <= l
                      longest_chains ==
                          SelectSeq(groups, LAMBDA g : g.key[1] = longest_length)
                      local_key == <<local_length, local_hash>>
                      replace(items) ==
                          [action |-> "replace_chain",
                           new_chain |-> MostSupported(items).group[1].chain,
                           chains |-> <<>>, fork |-> FALSE]
                  IN  IF longest_length > local_length
                      THEN IF Len(longest_chains) = 1
                           THEN replace(longest_chains)
                           ELSE [action |-> "resolve_fork", new_chain |-> <<>>,
                                 chains |-> longest_chains, fork |-> TRUE]
                      ELSE IF longest_length = local_length
                      THEN IF \E i \in 1..Len(groups) : groups[i].key = local_key
                           THEN LET ours == CHOOSE i \in 1..Len(groups) :
                                               groups[i].key = local_key
                                IN  IF HasConsensus(Len(groups[ours].group),
                                                    Len(peer_chains))
                                    THEN no_action
                                    ELSE IF Len(longest_chains) = 1
                                    THEN replace(longest_chains)
                                    ELSE no_action
                           ELSE replace(longest_chains)
                      ELSE no_action

\* ConsensusManager._validate_chain_data
validate_chain_data(chain_data) ==
    IF chain_data = <<>> THEN FALSE
    ELSE IF chain_data[1].index # 0 THEN FALSE
    ELSE \A i \in 1..Len(chain_data) :
            /\ chain_data[i].index = i - 1
            /\ i > 1 => chain_data[i].previous_hash = chain_data[i-1].hash

\* ConsensusManager._reconstruct_blockchain: Block(index=, timestamp=,
\* transactions=, previous_hash=, nonce=) raises TypeError, Block.__init__
\* has no timestamp and no nonce parameter and requires proof; the except
\* clause returns None
reconstruct_blockchain(chain_data) ==
    IF chain_data = <<>> THEN [blockchain |-> TRUE, chain |-> <<>>]
    ELSE [blockchain |-> FALSE, chain |-> <<>>]

\* ConsensusManager._replace_local_chain counting every call as a replacement
ConsensusManager_replace_local_chain_CountsCalls(c, new_chain_data) ==
    [chain |-> c, ret |-> FALSE, replaced |-> TRUE]

\* ConsensusManager._replace_local_chain installing the data as it came
ConsensusManager_replace_local_chain_Unchecked(c, new_chain_data) ==
    [chain |-> new_chain_data, ret |-> TRUE, replaced |-> TRUE]

\* ConsensusManager._replace_local_chain: the local chain afterwards, the
\* returned flag, and whether chain_replacements was incremented
ConsensusManager_replace_local_chain(c, new_chain_data) ==
    IF ~validate_chain_data(new_chain_data)
    THEN [chain |-> c, ret |-> FALSE, replaced |-> FALSE]
    ELSE LET new_blockchain == reconstruct_blockchain(new_chain_data)
         IN  IF ~new_blockchain.blockchain
             THEN [chain |-> c, ret |-> FALSE, replaced |-> FALSE]
             ELSE IF ~Blockchain_validate_chain(new_blockchain.chain)
             THEN [chain |-> c, ret |-> FALSE, replaced |-> FALSE]
             ELSE [chain |-> IF Blockchain_replace_chain(c, new_blockchain.chain)
                             THEN new_blockchain.chain ELSE c,
                   ret |-> TRUE, replaced |-> TRUE]

\* ConsensusManager._resolve_fork: the chain it selects (none when a
\* resolution is in progress), and what _replace_local_chain did with it
ConsensusManager_resolve_fork(c, chains, in_progress) ==
    IF in_progress
    THEN [selected |-> None, chain |-> c, ret |-> FALSE, replaced |-> FALSE]
    ELSE LET best_chain == MostSupported(chains)
             r == ConsensusManager_replace_local_chain(c, best_chain.group[1].chain)
         IN  [selected |-> [chain |-> best_chain.group[1].chain],
              chain |-> r.chain, ret |-> r.ret, replaced |-> r.replaced]

\* ConsensusManager.is_synced_with_network(peer_nodes), peer_nodes being
\* "None", "empty" or "listed": the flag it returns, why, and its counts
ConsensusManager_is_synced_with_network(peer_nodes, net, c) ==
    IF peer_nodes = "None" /\ ~net.nodes_ok
    THEN [ret |-> FALSE, reason |-> "error", matching_peers |-> 0,
          total_peers |-> 0]
    ELSE IF peer_nodes = "empty" \/ (peer_nodes = "None" /\ ~net.has_nodes)
    THEN [ret |-> TRUE, reason |-> "no_peers_to_check", matching_peers |-> 0,
          total_peers |-> 0]
    ELSE LET peer_chains == net.peer_chains
         IN  IF peer_chains = <<>>
             THEN [ret |-> TRUE, reason |-> "no_valid_peer_chains",
                   matching_peers |-> 0, total_peers |-> 0]
             ELSE LET local_length == Len(c)
                      local_hash == get_latest_block(c).hash
                      matching == SelectSeq(peer_chains, LAMBDA peer_info :
                          /\ peer_info.chain_length = local_length
                          /\ peer_info.latest_block_hash = local_hash)
                  IN  [ret |-> HasConsensus(Len(matching), Len(peer_chains)),
                       reason |-> "ratio", matching_peers |-> Len(matching),
                       total_peers |-> Len(peer_chains)]

(**************************** client.py ***********************************)
\* BlockchainClient.__init__ without a node_url
BlockchainClient_init ==
    [has_node_url |-> FALSE, is_connected |-> FALSE, connection_errors |-> 0]

\* the HTTP methods a caller passes, one of which _make_request does not know
Methods == {"GET", "POST", "PATCH"}
Supported == {"GET", "POST", "PUT", "DELETE"}

\* what one attempt of the session meets: a 200 answer with a JSON body, a
\* 200 answer whose body is no JSON, an answer with another status, and the
\* three except clauses
Responses == {"ok", "bad_json", "http_error", "Timeout", "ConnectionError",
              "Exception"}

\* the decoded body of a 200 answer
Envelope == [success |-> TRUE]

\* BlockchainClient._make_request before its loop and up to the method test
\* of the first iteration: whether it returns None without any attempt
make_request_refused(c, method) ==
    \/ ~c.has_node_url
    \/ method \notin Supported

\* one iteration of the loop of _make_request, with what follows the loop
\* when the iteration is the last: the client it leaves, whether the call
\* returned, what it returned, and the seconds slept before the next attempt
make_request_attempt(c, attempt, response) ==
    IF response = "ok"
    THEN [client |-> [c EXCEPT !.connection_errors = 0], returned |-> TRUE,
          ret |-> Envelope, slept |-> 0]
    ELSE IF response = "bad_json"
    THEN [client |-> [c EXCEPT !.connection_errors = 0], returned |-> TRUE,
          ret |-> None, slept |-> 0]
    ELSE IF response = "http_error"
    THEN IF attempt < max_retries
         THEN [client |-> c, returned |-> FALSE, ret |-> None,
               slept |-> retry_delay * (attempt + 1)]
         ELSE [client |-> c, returned |-> TRUE, ret |-> None, slept |-> 0]
    ELSE LET counted == [c EXCEPT !.connection_errors = @ + 1]
         IN  IF attempt < max_retries
             THEN [client |-> counted, returned |-> FALSE, ret |-> None,
                   slept |-> retry_delay * (attempt + 1)]
             ELSE [client |-> [counted EXCEPT !.is_connected = FALSE],
                   returned |-> TRUE, ret |-> None, slept |-> 0]

\* BlockchainClient.connect after its _make_request returned response
connect_result(c, response) ==
    IF response # None /\ response.success
    THEN [c EXCEPT !.is_connected = TRUE, !.connection_errors = 0]
    ELSE [c EXCEPT !.is_connected = FALSE]

\* BlockchainClient.disconnect
BlockchainClient_disconnect(c) ==
    [c EXCEPT !.is_connected = FALSE, !.has_node_url = FALSE]

(************************** p2p_manager.py ********************************)
\* the URLs of the remote nodes
Urls == {"http://peer1:5000", "http://peer2:5000", "http://peer3:5000"}

\* P2PManager._extract_node_id: "node_" and four digits of hash(node_url)
extract_node_id(node_url) ==
    CASE node_url = "http://peer1:5000" -> "node_0001"
      [] node_url = "http://peer2:5000" -> "node_0002"
      [] node_url = "http://peer3:5000" -> "node_0003"

\* whether the node at node_url runs BlockchainServer, whose get_server_info
\* (server.py:504) names every server 'BlockyHomework Blockchain Server';
\* the other nodes answer /api/info without a server_name
has_server_name(node_url) == node_url = "http://peer3:5000"
server_name == "BlockyHomework Blockchain Server"

\* the identifiers a peer can be stored under
NodeIds == {extract_node_id(u) : u \in Urls} \cup {server_name}

\* the {} of self.peers
EmptyDict == [x \in {} |-> None]

\* P2PManager.__init__
P2PManager_init ==
    [is_running |-> FALSE, peers |-> EmptyDict, connected_peers |-> {},
     blacklisted_peers |-> {},
     stats |-> [messages_sent |-> 0, connections_made |-> 0,
                connections_lost |-> 0]]

\* d[k] = v on a dict
SetItem(d, k, v) == [x \in DOMAIN d \cup {k} |-> IF x = k THEN v ELSE d[x]]

\* _connect_to_new_peers without the test of line 180
at_max_connections_Never(p) == FALSE

\* _connect_to_new_peers, line 180
at_max_connections(p) == Cardinality(p.connected_peers) >= MAX_CONNECTIONS

\* P2PManager._connect_to_peer at time t, rem[u].up telling whether the node
\* at u answers: ping_node, client.connect and get_server_info succeed
\* together; the attributes of peer_info the manager never reads (host,
\* port, response_time, connected_at, known_peers) are left out
P2PManager_connect_to_peer(p, node_url, rem, t) ==
    IF rem[node_url].up
    THEN LET node_id == IF has_server_name(node_url) THEN server_name
                        ELSE extract_node_id(node_url)
             peer_info == [node_id |-> node_id, url |-> node_url,
                           last_heartbeat |-> t, status |-> "connected"]
         IN  [p EXCEPT !.peers = SetItem(@, node_id, peer_info),
                       !.connected_peers = @ \cup {node_id},
                       !.stats.connections_made = @ + 1]
    ELSE p

\* P2PManager._disconnect_from_peer
P2PManager_disconnect_from_peer(p, node_id) ==
    IF node_id \in p.connected_peers
    THEN [p EXCEPT !.connected_peers = @ \ {node_id},
                   !.stats.connections_lost =
                       IF node_id \in DOMAIN p.peers THEN @ + 1 ELSE @]
    ELSE p

\* P2PManager._cleanup_dead_connections that never removes from self.peers
P2PManager_cleanup_dead_connections_KeepsTable(p, current_time) ==
    LET dead_peers == {node_id \in DOMAIN p.peers :
                          current_time - p.peers[node_id].last_heartbeat > 120}
        lost == dead_peers \cap p.connected_peers
    IN  [p EXCEPT !.connected_peers = @ \ dead_peers,
                  !.stats.connections_lost = @ + Cardinality(lost)]

\* P2PManager._cleanup_dead_connections: the dead peers are disconnected one
\* by one and deleted from self.peers
P2PManager_cleanup_dead_connections(p, current_time) ==
    LET dead_peers == {node_id \in DOMAIN p.peers :
                          current_time - p.peers[node_id].last_heartbeat > 120}
        lost == dead_peers \cap p.connected_peers
    IN  [p EXCEPT !.connected_peers = @ \ dead_peers,
                  !.stats.connections_lost = @ + Cardinality(lost),
                  !.peers = [x \in DOMAIN @ \ dead_peers |-> @[x]]]

\* the peer_info a heartbeat leaves: client.connect failed ("no_connect"),
\* health_check failed ("no_health"), or both answered ("ok")
heartbeat_peer_info(peer_info, answer, t) ==
    IF answer = "ok"
    THEN [peer_info EXCEPT !.last_heartbeat = t, !.status = "connected"]
    ELSE IF answer = "no_health"
    THEN [peer_info EXCEPT !.status = "unresponsive"]
    ELSE [peer_info EXCEPT !.status = "disconnected"]

\* P2PManager._send_heartbeat_to_peers that refreshes last_heartbeat whatever
\* the probe answered
P2PManager_send_heartbeat_to_peers_AlwaysFresh(p, answers, t) ==
    [p EXCEPT !.peers =
        [node_id \in DOMAIN @ |->
            IF node_id \in p.connected_peers
            THEN [heartbeat_peer_info(@[node_id], answers[node_id], t)
                     EXCEPT !.last_heartbeat = t]
            ELSE @[node_id]]]

\* P2PManager._send_heartbeat_to_peers at time t, answers[node_id] being the
\* outcome of the probe of that peer
P2PManager_send_heartbeat_to_peers(p, answers, t) ==
    [p EXCEPT !.peers =
        [node_id \in DOMAIN @ |->
            IF node_id \in p.connected_peers
            THEN heartbeat_peer_info(@[node_id], answers[node_id], t)
            ELSE @[node_id]]]

\* the kinds of message _send_message_to_peer forwards
MessageTypes == {"new_transaction", "new_block", "chain_update"}

\* P2PManager._send_message_to_peer: the peer is known with status
\* 'connected', answers client.connect, and answers the call with success
P2PManager_send_message_to_peer(p, node_id, message_type, rem, refusing) ==
    IF node_id \notin DOMAIN p.peers THEN FALSE
    ELSE IF p.peers[node_id].status # "connected" THEN FALSE
    ELSE IF ~rem[p.peers[node_id].url].up THEN FALSE
    ELSE IF message_type \notin MessageTypes THEN FALSE
    ELSE p.peers[node_id].url \notin refusing

\* list(s) of a set, in one of its orders
RECURSIVE list(_)
list(set) ==
    IF set = {} THEN <<>>
    ELSE LET x == CHOOSE y \in set : TRUE IN <<x>> \o list(set \ {x})

\* the loop of broadcast_message leaving at the first peer that fails
broadcast_until_failure(p, nodes, i, message_type, rem, refusing) ==
    LET failing == {j \in 1..Len(nodes) :
                       ~P2PManager_send_message_to_peer(p, nodes[j], message_type,
                                                        rem, refusing)}
        stop == IF failing = {} THEN Len(nodes)
                ELSE CHOOSE j \in failing : \A k \in failing : j <= k
    IN  [attempts |-> SubSeq(nodes, 1, stop),
         successful_broadcasts |-> IF failing = {} THEN stop ELSE stop - 1]

\* the loop of broadcast_message over the snapshot nodes from position i:
\* the calls of _send_message_to_peer it makes and how many returned True
RECURSIVE broadcast_loop(_, _, _, _, _, _)
broadcast_loop(p, nodes, i, message_type, rem, refusing) ==
    IF i > Len(nodes) THEN [attempts |-> <<>>, successful_broadcasts |-> 0]
    ELSE LET rest == broadcast_loop(p, nodes, i + 1, message_type, rem, refusing)
             sent == P2PManager_send_message_to_peer(p, nodes[i], message_type,
                                                     rem, refusing)
         IN  [attempts |-> <<nodes[i]>> \o rest.attempts,
              successful_broadcasts |->
                  rest.successful_broadcasts + (IF sent THEN 1 ELSE 0)]

\* P2PManager.broadcast_message: the manager it leaves, the calls it made and
\* the count it returns
P2PManager_broadcast_message(p, message_type, rem, refusing) ==
    LET r == broadcast_loop(p, list(p.connected_peers), 1, message_type, rem,
                            refusing)
    IN  [p2p |-> [p EXCEPT !.stats.messages_sent = @ + r.successful_broadcasts],
         attempts |-> r.attempts, ret |-> r.successful_broadcasts]

\* P2PManager.blacklist_peer
P2PManager_blacklist_peer(p, node_id) ==
    P2PManager_disconnect_from_peer(
        [p EXCEPT !.blacklisted_peers = @ \cup {node_id}], node_id)

\* P2PManager.unblacklist_peer
P2PManager_unblacklist_peer(p, node_id) ==
    [p EXCEPT !.blacklisted_peers = @ \ {node_id}]

(********************** client.py: node discovery *************************)
\* _make_request when every attempt of the call meets the same response: the
\* client it leaves and what it returns
RECURSIVE make_request_run(_, _, _)
make_request_run(c, attempt, response) ==
    LET r == make_request_attempt(c, attempt, response)
    IN  IF r.returned
        THEN [client |-> r.client, ret |-> r.ret]
        ELSE make_request_run(r.client, attempt + 1, response)

\* BlockchainClient.connect(node_url) to a node that answers /api/health or
\* refuses the connection: the client it leaves and what it returns
BlockchainClient_connect(c, node_url, rem) ==
    LET r == make_request_run([c EXCEPT !.has_node_url = TRUE], 0,
                              IF rem[node_url].up THEN "ok"
                              ELSE "ConnectionError")
    IN  [client |-> connect_result(r.client, r.ret),
         ret |-> r.ret # None /\ r.ret.success]

\* None as the value of self.node_url
NoUrl == "None"

\* BlockchainClient.connect(node_url), line 54 included: the client, which
\* remembers the URL it was pointed to, and the returned flag
connect_to(c, node_url, rem) ==
    LET r == BlockchainClient_connect(c, node_url, rem)
    IN  [client |-> [r.client EXCEPT !.node_url = node_url], ret |-> r.ret]

\* BlockchainClient.disconnect on a client that remembers its URL
disconnect_from(c) ==
    [BlockchainClient_disconnect(c) EXCEPT !.node_url = NoUrl]

\* BlockchainClient.ping_node: connect to the probed node, and when that
\* succeeded go back to the original URL, by connect or by disconnect
BlockchainClient_ping_node(c, node_url, rem) ==
    LET original_url == c.node_url
        probe == connect_to(c, node_url, rem)
    IN  IF probe.ret
        THEN [client |-> IF original_url # NoUrl
                         THEN connect_to(probe.client, original_url, rem).client
                         ELSE disconnect_from(probe.client),
              ret |-> TRUE]
        ELSE [client |-> probe.client, ret |-> FALSE]

\* one iteration of the while loop of discover_nodes that follows the node
\* lists of the nodes it could not connect to as well
discover_iteration_FollowsAll(c, f, node_url, rem) ==
    LET con == BlockchainClient_connect(c, node_url, rem)
        checked_nodes == f.checked_nodes \cup {node_url}
    IN  [client |-> con.client,
         frame |-> [f EXCEPT
             !.nodes_to_check = (@ \ {node_url})
                                   \cup (rem[node_url].nodes \ checked_nodes),
             !.checked_nodes = checked_nodes,
             !.discovered_nodes = IF con.ret THEN @ \cup {node_url} ELSE @,
             !.probes = Append(@, node_url)]]

\* one iteration of the while loop of discover_nodes, in which pop() gave
\* node_url: the client and the local variables it leaves; probes lists the
\* URLs connect was called with
discover_iteration(c, f, node_url, rem) ==
    LET popped == [f EXCEPT !.nodes_to_check = @ \ {node_url}]
    IN  IF node_url \in f.checked_nodes
        THEN [client |-> c, frame |-> popped]
        ELSE LET con == BlockchainClient_connect(c, node_url, rem)
                 checked_nodes == f.checked_nodes \cup {node_url}
                 probed == [popped EXCEPT !.checked_nodes = checked_nodes,
                                          !.probes = Append(@, node_url)]
             IN  IF con.ret
                 THEN LET nodes_response ==
                              make_request_run(con.client, 0,
                                  IF rem[node_url].up THEN "ok"
                                  ELSE "ConnectionError")
                          node_list ==
                              IF nodes_response.ret # None
                                 /\ nodes_response.ret.success
                              THEN rem[node_url].nodes ELSE {}
                      IN  [client |-> nodes_response.client,
                           frame |-> [probed EXCEPT
                               !.discovered_nodes = @ \cup {node_url},
                               !.nodes_to_check = @ \cup (node_list \ checked_nodes)]]
                 ELSE [client |-> con.client, frame |-> probed]

(****************************** inputs ************************************)
\* a digest no transaction or block of the model has
BogusHash == [bogus |-> TRUE]

\* Transaction(...) followed by sign_transaction with the key k
Signed(sender, recipient, amount, t, k) ==
    sign_transaction(Transaction(sender, recipient, amount, None, t), k)

\* transactions whose sender is the signer's public key, created at t: one
\* that pays the floor fee and one that pays more
GoodTxs(t) ==
    {Signed(public_key("k1"), "recipient", a, t, "k1") : a \in {1, AmountOne + 1}}

\* transactions with one defect each, created at t
BadTxs(t) ==
    {Signed(public_key("k1"), "recipient", 0, t, "k1"),
     Signed(public_key("k1"), "recipient", -1, t, "k1"),
     Signed(public_key("k1"), public_key("k1"), 1, t, "k1"),
     Signed(public_key("k1"), "", 1, t, "k1"),
     Signed("", "recipient", 1, t, "k1"),
     Transaction(public_key("k1"), "recipient", 1, None, t),
     Transaction("0", "recipient", 10 * AmountOne, None, t),
     Signed(public_key("k1"), "recipient", 1, t, "k2"),
     [Signed(public_key("k1"), "recipient", 1, t, "k1") EXCEPT !.amount = 2]}

\* transactions made by Wallet.create_transaction at t
WalletTxs(t) == {create_transaction("k1", "recipient", AmountOne, t)}

\* what each ledger is offered at time t
TxInputs(n, t) ==
    IF n = "local" THEN GoodTxs(t) \cup BadTxs(t) \cup WalletTxs(t)
    ELSE {Signed(public_key("k2"), "recipient", AmountOne, t, "k2")}

MinerAddresses == {generate_address("k1")}

\* addresses whose balance is asked for: the miner, the two signers, the
\* recipient and the reward sender
BalanceAddresses ==
    MinerAddresses \cup {public_key(k) : k \in Keys} \cup {"recipient", "0"}

\* valid transactions of three amounts, two of them paying the floor fee,
\* created at any time
PoolTxs ==
    {Signed(public_key("k1"), "recipient", a, t, "k1") :
        a \in {1, AmountOne, AmountOne + 1}, t \in 0..MaxTime}

\* mempools a ledger can hold: up to max_size valid transactions of distinct
\* hashes, in any insertion order
RECURSIVE LoadedPools(_)
LoadedPools(n) ==
    IF n = 0 THEN {<<>>}
    ELSE LET shorter == LoadedPools(n - 1)
         IN  shorter \cup
             UNION {{Append(pool, tx) :
                        tx \in {x \in PoolTxs : x.hash \notin Hashes(pool)}} :
                    pool \in {q \in shorter : Len(q) = n - 1}}

Defects == {"none", "hash", "proof", "tx", "link", "index"}

\* a hand-built Block object following a block of digest prev_hash
CandidateBlock(index, prev_hash, defect, t) ==
    LET txs == IF defect = "tx"
               THEN <<Transaction(public_key("k1"), "recipient", 1, None, t)>>
               ELSE <<Signed(public_key("k1"), "recipient", 1, t, "k1")>>
        b == Block(IF defect = "index" THEN index + 1 ELSE index,
                   txs,
                   IF defect = "proof" THEN 0 ELSE 1,
                   IF defect = "link" THEN BogusHash ELSE prev_hash,
                   t)
    IN  IF defect = "hash" THEN [b EXCEPT !.proof = @ + 1] ELSE b

\* base followed by n linked hand-built blocks, the p-th of them carrying
\* the defect
RECURSIVE ExtendChain(_, _, _, _, _)
ExtendChain(base, n, defect, p, t) ==
    IF n = 0 THEN base
    ELSE LET pre == ExtendChain(base, n - 1, defect, p, t)
             prev_hash == IF pre = <<>> THEN GENESIS_BLOCK_HASH
                          ELSE pre[Len(pre)].hash
         IN  Append(pre, CandidateBlock(Len(pre), prev_hash,
                                        IF n = p THEN defect ELSE "none", t))

\* chains of hand-built blocks only
HandBuilt(t) ==
    {ExtendChain(<<>>, n, d, p, t) : n \in 1..MaxCandidate, d \in Defects,
                                    p \in 1..MaxCandidate}

\* what replace_chain is called with at time t
Candidates(t) == HandBuilt(t) \cup {chain[m] : m \in Nodes}

\* chains a ledger can hold: a genesis block followed by blocks of any kind
LoadedChains ==
    {ExtendChain(create_genesis_block(0), n, d, p, t) :
        n \in 0..MaxCandidate, d \in Defects, p \in 1..MaxCandidate,
        t \in 0..MaxTime}

\* the answer of a peer that holds the chain c, names its length and head
\* hash, sends blocks that carry their hash, and claims is_valid as it likes
Report(c, is_valid) ==
    [chain_length |-> Len(c), latest_block_hash |-> get_latest_block(c).hash,
     is_valid |-> is_valid, chain |-> c]

\* the answer of a peer that runs BlockchainServer on the chain c:
\* get_blockchain_status and get_full_chain send Block.to_dict()
Served(c) ==
    [chain_length |-> Len(c), latest_block_hash |-> EmptyString,
     is_valid |-> Blockchain_validate_chain(c),
     chain |-> [i \in 1..Len(c) |-> Block_to_dict(c[i])]]

\* chains peers hold: hand-built ones of one and two blocks, two sound ones
\* that differ in their head, and ones with a broken link or an unsigned
\* transaction
PeerChains ==
    {ExtendChain(<<>>, 1, "none", 1, 0),
     ExtendChain(<<>>, 2, "none", 1, 0),
     ExtendChain(<<>>, 2, "none", 1, MaxTime),
     ExtendChain(<<>>, 2, "link", 2, 0),
     ExtendChain(<<>>, 2, "tx", 2, 0)}

\* what one peer may answer to a node whose chain is c
PeerAnswers(c) ==
    {Report(x, v) : x \in PeerChains \cup {c}, v \in BOOLEAN}
        \cup {Served(ExtendChain(<<>>, 2, "none", 1, 0))}

\* the answers of 0..n responding peers
RECURSIVE PeerSeqs(_, _)
PeerSeqs(c, n) ==
    IF n = 0 THEN {<<>>}
    ELSE LET shorter == PeerSeqs(c, n - 1)
         IN  shorter \cup {Append(q, a) : q \in {x \in shorter : Len(x) = n - 1},
                                         a \in PeerAnswers(c)}

\* what the network answers to a node whose chain is c: a failing
\* get_network_status or get_nodes, an empty node list, or the peers' answers
Networks(c) ==
    {[network_ok |-> FALSE, nodes_ok |-> TRUE, has_nodes |-> FALSE, peer_chains |-> <<>>],
     [network_ok |-> TRUE, nodes_ok |-> FALSE, has_nodes |-> FALSE, peer_chains |-> <<>>],
     [network_ok |-> TRUE, nodes_ok |-> TRUE, has_nodes |-> FALSE, peer_chains |-> <<>>]}
    \cup {[network_ok |-> TRUE, nodes_ok |-> TRUE, has_nodes |-> TRUE, peer_chains |-> q] :
             q \in PeerSeqs(c, MaxPeers)}

\* chains the local node holds when a round starts: the genesis block of a
\* fresh Blockchain(), or a chain of two sound blocks installed by
\* replace_chain
ConsensusLocalChains ==
    {create_genesis_block(0), ExtendChain(<<>>, 2, "none", 1, 0)}

\* seconds between two blocks of a mined history: around the two thresholds
\* of adjust_difficulty (9 * 30 and 9 * 120 seconds over ten blocks)
Spacings == {0, 30, 135, 136}

\* seconds between the last block of the history and the next mine_block
Gaps == {0, 1, 29, 30}

\* numbers of blocks mined before SpecDifficulty starts: one or two short
\* of the first and of the fourth adjustment
MinedLengths == {8, 9, 38, 39}

\* a fresh Blockchain() after n - 1 rounds of add_transaction and mine_block
\* on an empty mempool, the i-th at time i * s: its chain of n blocks, its
\* mempool and its difficulty
RECURSIVE MinedState(_, _)
MinedState(n, s) ==
    IF n <= 1
    THEN [chain |-> create_genesis_block(0), pool |-> <<>>,
          difficulty |-> MINING_DIFFICULTY]
    ELSE LET pre == MinedState(n - 1, s)
             t == (n - 1) * s
             tx == Signed(public_key("k1"), "recipient", 1, t, "k1")
             added == Blockchain_add_transaction(pre.pool, tx)
             r == Blockchain_mine_block(pre.chain, added.pool, pre.difficulty,
                                        generate_address("k1"), t)
         IN  IF pre.pool # <<>> THEN pre
             ELSE [chain |-> r.chain, pool |-> r.pool, difficulty |-> r.difficulty]

\* what discovery.get_active_nodes() returns: the list of a set of URLs
ActiveLists == {list(S) : S \in SUBSET Urls}

\* the identifiers blacklist_peer and unblacklist_peer are called with: what
\* _extract_node_id gives for a URL, and what a peer was stored under
BlacklistIds == {extract_node_id("http://peer1:5000"), server_name}

\* the outcomes of the heartbeat probes of the connected peers of p: a node
\* that is down answers nothing, one that is up may still lose a request
ProbeAnswers(p, rem) ==
    {a \in [p.connected_peers -> {"ok", "no_health", "no_connect"}] :
        \A node_id \in p.connected_peers :
            ~rem[p.peers[node_id].url].up => a[node_id] = "no_connect"}

(************************** state machine *********************************)
\* the threads of the local node: the consensus loop and two force_sync
\* callers, two callers of mine_block, the server's mining thread, and the
\* two threads _start_management_threads starts
RoundThreads == {"loop", "caller1", "caller2"}
MinerThreads == {"m1", "m2"}
PeerThreads == {"management", "heartbeat"}
\* the thread that calls the BlockchainClient
ClientThreads == {"request", "discover"}
\* a thread that calls Blockchain.replace_chain and one that calls
\* P2PManager.stop
LedgerThreads == {"replacer", "stopper"}
Threads == RoundThreads \cup MinerThreads \cup {"mining"} \cup PeerThreads
               \cup ClientThreads \cup LedgerThreads

\* P2PManager.__init__, and no remote node answering
InitPeers ==
    /\ p2p = P2PManager_init
    /\ remote = [u \in Urls |-> [up |-> FALSE, nodes |-> {}]]
    /\ client = BlockchainClient_init

\* ConsensusManager.__init__, BlockchainServer.__init__, no thread started
InitNode ==
    /\ consensus = [sync_active |-> FALSE, is_syncing |-> FALSE,
                    fork_resolution_in_progress |-> FALSE,
                    stats |-> [sync_attempts |-> 0, successful_syncs |-> 0,
                               failed_syncs |-> 0, forks_detected |-> 0,
                               forks_resolved |-> 0, chain_replacements |-> 0]]
    /\ server = [mining_active |-> FALSE]
    /\ network = [network_ok |-> TRUE, nodes_ok |-> TRUE, has_nodes |-> FALSE,
                  peer_chains |-> <<>>]
    /\ pc = [t \in Threads |-> "idle"]
    /\ frame = [t \in Threads |-> None]
    /\ InitPeers

Init ==
    /\ chain = [n \in Nodes |-> create_genesis_block(0)]
    /\ mempool = [n \in Nodes |-> <<>>]
    /\ difficulty = [n \in Nodes |-> MINING_DIFFICULTY]
    /\ now = 0
    /\ last = [op |-> "init"]
    /\ InitNode

\* the clock advances
Tick ==
    /\ now < MaxTime
    /\ now' = now + 1
    /\ last' = [op |-> "tick"]
    /\ UNCHANGED <<chain, mempool, difficulty, node_vars>>

\* n.add_transaction(tx)
add_transaction(n, tx) ==
    LET r == Blockchain_add_transaction(mempool[n], tx)
    IN  /\ mempool' = [mempool EXCEPT ![n] = r.pool]
        /\ last' = [op |-> "add_transaction", node |-> n, tx |-> tx, ret |-> r.ret]
        /\ UNCHANGED <<chain, difficulty, now, node_vars>>

\* n.mine_block(miner_address)
mine_block(n, miner_address) ==
    /\ LET r == Blockchain_mine_block(chain[n], mempool[n], difficulty[n],
                                      miner_address, now)
       IN  /\ chain' = [chain EXCEPT ![n] = r.chain]
           /\ mempool' = [mempool EXCEPT ![n] = r.pool]
           /\ difficulty' = [difficulty EXCEPT ![n] = r.difficulty]
           /\ last' = [op |-> "mine_block", node |-> n,
                       miner_address |-> miner_address, block |-> r.ret]
           /\ UNCHANGED <<now, node_vars>>

\* n.replace_chain(new_chain)
replace_chain(n, new_chain) ==
    LET ret == Blockchain_replace_chain(chain[n], new_chain)
    IN  /\ chain' = [chain EXCEPT ![n] = IF ret THEN new_chain ELSE @]
        /\ last' = [op |-> "replace_chain", node |-> n, new_chain |-> new_chain,
                    ret |-> ret]
        /\ UNCHANGED <<mempool, difficulty, now, node_vars>>

\* n.validate_chain()
validate_chain(n) ==
    /\ last' = [op |-> "validate_chain", node |-> n,
                ret |-> Blockchain_validate_chain(chain[n])]
    /\ UNCHANGED <<chain, mempool, difficulty, now, node_vars>>

\* n.mempool.remove_transaction(transaction_hash)
remove_transaction(n, h) ==
    LET r == Mempool_remove_transaction(mempool[n], h)
    IN  /\ mempool' = [mempool EXCEPT ![n] = r.pool]
        /\ last' = [op |-> "remove_transaction", node |-> n, hash |-> h,
                    ret |-> r.ret]
        /\ UNCHANGED <<chain, difficulty, now, node_vars>>

\* n.mempool.clear_transactions(transaction_hashes)
clear_transactions(n, hashes) ==
    /\ mempool' = [mempool EXCEPT ![n] = Mempool_clear_transactions(@, hashes)]
    /\ last' = [op |-> "clear_transactions", node |-> n, hashes |-> hashes]
    /\ UNCHANGED <<chain, difficulty, now, node_vars>>

\* one ledger, every kind of transaction, a running clock
Next ==
    \/ Tick
    \/ \E tx \in TxInputs("local", now) : add_transaction("local", tx)
    \/ \E a \in MinerAddresses :
           Len(chain["local"]) < MaxChain /\ mine_block("local", a)
    \/ validate_chain("local")
    \/ \E h \in Hashes(mempool["local"]) \cup {BogusHash} :
           remove_transaction("local", h)
    \/ \E hs \in SUBSET (Hashes(mempool["local"]) \cup {BogusHash}) :
           clear_transactions("local", hs)

Spec == Init /\ [][Next]_vars

\* two ledgers that both mine; the local one is offered the peer's chain and
\* hand-built chains
NextSync ==
    \/ \E n \in Nodes : \E tx \in TxInputs("peer", now) : add_transaction(n, tx)
    \/ \E n \in Nodes, a \in MinerAddresses :
           Len(chain[n]) < MaxSyncChain /\ mine_block(n, a)
    \/ \E c \in Candidates(now) : replace_chain("local", c)
    \/ validate_chain("local")

SpecSync == Init /\ [][NextSync]_vars

\* n.get_balance(address)
get_balance(n, address) ==
    /\ last' = [op |-> "get_balance", node |-> n, address |-> address,
                ret |-> Blockchain_get_balance(chain[n], address)]
    /\ UNCHANGED <<chain, mempool, difficulty, now, node_vars>>

\* validate_chain and get_balance as functions of the chain: the local ledger
\* holds any chain of LoadedChains, and may go on mining
InitLoaded ==
    /\ chain \in {[n \in Nodes |-> IF n = "local" THEN c ELSE create_genesis_block(0)] :
                    c \in LoadedChains}
    /\ mempool = [n \in Nodes |-> <<>>]
    /\ difficulty = [n \in Nodes |-> MINING_DIFFICULTY]
    /\ now = MaxTime
    /\ last = [op |-> "init"]
    /\ InitNode

NextLoaded ==
    \/ \E tx \in TxInputs("peer", now) : add_transaction("local", tx)
    \/ \E a \in MinerAddresses :
           Len(chain["local"]) < MaxSyncChain /\ mine_block("local", a)
    \/ validate_chain("local")
    \/ \E address \in BalanceAddresses : get_balance("local", address)

SpecLoaded == InitLoaded /\ [][NextLoaded]_vars

\* n.mempool.prioritize_transactions()
prioritize(n) ==
    /\ last' = [op |-> "prioritize_transactions", node |-> n,
                ret |-> prioritize_transactions(mempool[n])]
    /\ UNCHANGED <<chain, mempool, difficulty, now, node_vars>>

\* n.mempool.get_transactions_for_block(limit)
transactions_for_block(n, limit) ==
    /\ last' = [op |-> "get_transactions_for_block", node |-> n, limit |-> limit,
                ret |-> get_transactions_for_block(mempool[n], limit)]
    /\ UNCHANGED <<chain, mempool, difficulty, now, node_vars>>

\* the mempool queries as functions of the mempool: the local ledger holds
\* any mempool of LoadedPools
InitPool ==
    /\ chain = [n \in Nodes |-> create_genesis_block(0)]
    /\ mempool \in {[n \in Nodes |-> IF n = "local" THEN pool ELSE <<>>] :
                      pool \in LoadedPools(max_size)}
    /\ difficulty = [n \in Nodes |-> MINING_DIFFICULTY]
    /\ now = MaxTime
    /\ last = [op |-> "init"]
    /\ InitNode

NextPool ==
    \/ prioritize("local")
    \/ \E limit \in 0..(max_size + 1) : transactions_for_block("local", limit)

SpecPool == InitPool /\ [][NextPool]_vars

\* _perform_consensus_check, line 115: a round in progress makes t return
round_begin(t) ==
    /\ pc[t] = "idle"
    /\ consensus.stats.sync_attempts < MaxRounds
    /\ pc' = [pc EXCEPT ![t] = IF consensus.is_syncing THEN "idle" ELSE "set"]
    /\ last' = [op |-> "round_begin", thread |-> t, skipped |-> consensus.is_syncing]
    /\ UNCHANGED <<chain, mempool, difficulty, now, consensus, server,
                 network, frame, p2p_vars>>

\* lines 119-120
round_set(t) ==
    /\ pc[t] = "set"
    /\ consensus' = [consensus EXCEPT !.is_syncing = TRUE,
                                      !.stats.sync_attempts = @ + 1]
    /\ pc' = [pc EXCEPT ![t] = "body"]
    /\ last' = [op |-> "round_set", thread |-> t]
    /\ UNCHANGED <<chain, mempool, difficulty, now, server, network, frame,
                 p2p_vars>>

\* lines 123-158: collect the peers' answers, analyse, apply the decision
round_body(t) ==
    /\ pc[t] = "body"
    /\ pc' = [pc EXCEPT ![t] = "finally"]
    /\ IF ~network.network_ok \/ ~network.nodes_ok
       THEN /\ consensus' = [consensus EXCEPT !.stats.failed_syncs = @ + 1]
            /\ last' = [op |-> "round", thread |-> t, action |-> "failed",
                        selected |-> None, ret |-> FALSE]
            /\ UNCHANGED chain
       ELSE IF ~network.has_nodes
       THEN /\ last' = [op |-> "round", thread |-> t, action |-> "no_nodes",
                        selected |-> None, ret |-> FALSE]
            /\ UNCHANGED <<chain, consensus>>
       ELSE LET c == chain["local"]
                consensus_result ==
                    ConsensusManager_analyze_consensus(network.peer_chains, c)
                r == IF consensus_result.action = "replace_chain"
                     THEN LET x == ConsensusManager_replace_local_chain(
                                       c, consensus_result.new_chain)
                          IN  [selected |-> [chain |-> consensus_result.new_chain],
                               chain |-> x.chain, ret |-> x.ret,
                               replaced |-> x.replaced]
                     ELSE IF consensus_result.action = "resolve_fork"
                     THEN ConsensusManager_resolve_fork(
                              c, consensus_result.chains,
                              consensus.fork_resolution_in_progress)
                     ELSE [selected |-> None, chain |-> c, ret |-> FALSE,
                           replaced |-> FALSE]
            IN  /\ chain' = [chain EXCEPT !["local"] = r.chain]
                /\ consensus' =
                      [consensus EXCEPT
                         !.stats.forks_detected =
                             IF consensus_result.fork THEN @ + 1 ELSE @,
                         !.stats.forks_resolved =
                             IF consensus_result.action = "resolve_fork" /\ r.ret
                             THEN @ + 1 ELSE @,
                         !.stats.chain_replacements =
                             IF r.replaced THEN @ + 1 ELSE @,
                         !.stats.successful_syncs = @ + 1]
                /\ last' = [op |-> "round", thread |-> t,
                            action |-> consensus_result.action,
                            selected |-> r.selected, ret |-> r.ret]
    /\ UNCHANGED <<mempool, difficulty, now, server, network, frame, p2p_vars>>

\* _perform_consensus_check without its finally clause
round_finally_KeepsFlag(t) ==
    /\ pc[t] = "finally"
    /\ pc' = [pc EXCEPT ![t] = "idle"]
    /\ last' = [op |-> "round_finally", thread |-> t]
    /\ UNCHANGED <<chain, mempool, difficulty, now, consensus, server, network,
                   frame, p2p_vars>>

\* line 160
round_finally(t) ==
    /\ pc[t] = "finally"
    /\ consensus' = [consensus EXCEPT !.is_syncing = FALSE]
    /\ pc' = [pc EXCEPT ![t] = "idle"]
    /\ last' = [op |-> "round_finally", thread |-> t]
    /\ UNCHANGED <<chain, mempool, difficulty, now, server, network, frame,
                 p2p_vars>>

\* consensus rounds of the loop thread alone, against any answers of the
\* network
InitConsensus ==
    /\ \E c \in ConsensusLocalChains :
          /\ chain = [n \in Nodes |-> c]
          /\ network \in Networks(c)
    /\ mempool = [n \in Nodes |-> <<>>]
    /\ difficulty = [n \in Nodes |-> MINING_DIFFICULTY]
    /\ now = MaxTime
    /\ last = [op |-> "init"]
    /\ consensus = [sync_active |-> FALSE, is_syncing |-> FALSE,
                    fork_resolution_in_progress |-> FALSE,
                    stats |-> [sync_attempts |-> 0, successful_syncs |-> 0,
                               failed_syncs |-> 0, forks_detected |-> 0,
                               forks_resolved |-> 0, chain_replacements |-> 0]]
    /\ server = [mining_active |-> FALSE]
    /\ pc = [t \in Threads |-> "idle"]
    /\ frame = [t \in Threads |-> None]
    /\ InitPeers

NextConsensus ==
    \/ round_begin("loop")
    \/ round_set("loop")
    \/ round_body("loop")
    \/ round_finally("loop")

SpecConsensus == InitConsensus /\ [][NextConsensus]_vars

\* ConsensusManager.is_synced_with_network(peer_nodes), called by any thread
is_synced_with_network(peer_nodes) ==
    /\ LET r == ConsensusManager_is_synced_with_network(peer_nodes, network,
                                                        chain["local"])
       IN  last' = [op |-> "is_synced_with_network", peer_nodes |-> peer_nodes,
                    ret |-> r.ret, reason |-> r.reason,
                    matching_peers |-> r.matching_peers,
                    total_peers |-> r.total_peers]
    /\ UNCHANGED <<chain, mempool, difficulty, now, node_vars>>

\* the rounds of the loop thread and callers of is_synced_with_network
NextSynced ==
    \/ NextConsensus
    \/ \E peer_nodes \in {"None", "empty", "listed"} :
           is_synced_with_network(peer_nodes)

SpecSynced == InitConsensus /\ [][NextSynced]_vars

\* t enters n.mine_block(miner_address), lines 44-55: nothing pending makes
\* it return None, else it builds the block on the latest block and enters
\* mine_proof_of_work(self.difficulty)
mine_start(t, n, miner_address) ==
    /\ pc[t] = "idle"
    /\ IF get_transactions(mempool[n]) = <<>>
       THEN /\ last' = [op |-> "mine_block", node |-> n, thread |-> t,
                        miner_address |-> miner_address, block |-> None]
            /\ UNCHANGED <<pc, frame>>
       ELSE /\ frame' = [frame EXCEPT ![t] =
                            [block |-> mine_new_block(chain[n], mempool[n], now),
                             difficulty |-> difficulty[n],
                             miner_address |-> miner_address]]
            /\ pc' = [pc EXCEPT ![t] = "search"]
            /\ last' = [op |-> "mine_start", node |-> n, thread |-> t]
    /\ UNCHANGED <<chain, mempool, difficulty, now, consensus, server,
                 network, p2p_vars>>

\* one pass of the loop of mine_proof_of_work in t: next proof, new hash,
\* return when the hash meets the target
search_step(t) ==
    /\ pc[t] = "search"
    /\ LET b == search_iteration(frame[t].block)
       IN  /\ frame' = [frame EXCEPT ![t].block = b]
           /\ pc' = [pc EXCEPT ![t] = IF meets_target(b.hash, frame[t].difficulty)
                                      THEN "found" ELSE "search"]
    /\ last' = [op |-> "search_step", thread |-> t]
    /\ UNCHANGED <<chain, mempool, difficulty, now, consensus, server,
                 network, p2p_vars>>

\* t leaves the search in n.mine_block, lines 56-73: reward, append, clear
\* the mempool, adjust the difficulty
mine_commit(t, n) ==
    /\ pc[t] = "found"
    /\ LET r == mine_commit_block(chain[n], mempool[n], difficulty[n],
                                  frame[t].block, frame[t].miner_address, now)
       IN  /\ chain' = [chain EXCEPT ![n] = r.chain]
           /\ mempool' = [mempool EXCEPT ![n] = r.pool]
           /\ difficulty' = [difficulty EXCEPT ![n] = r.difficulty]
           /\ last' = [op |-> "mine_block", node |-> n, thread |-> t,
                       miner_address |-> frame[t].miner_address, block |-> r.ret]
    /\ pc' = [pc EXCEPT ![t] = IF t = "mining" THEN "loop" ELSE "idle"]
    /\ frame' = [frame EXCEPT ![t] = None]
    /\ UNCHANGED <<now, consensus, server, network, p2p_vars>>

\* chains of two and three sound hand-built blocks
SoundChains == {ExtendChain(<<>>, n, "none", 1, 0) : n \in 2..MaxSyncChain}

\* several threads call mine_block on the local ledger while transactions
\* arrive and replace_chain installs sound chains
NextThreads ==
    \/ \E tx \in TxInputs("peer", now) : add_transaction("local", tx)
    \/ \E t \in MinerThreads, a \in MinerAddresses :
           Len(chain["local"]) < MaxSyncChain /\ mine_start(t, "local", a)
    \/ \E t \in MinerThreads : search_step(t)
    \/ \E t \in MinerThreads : mine_commit(t, "local")
    \/ \E c \in SoundChains : replace_chain("local", c)

SpecThreads == Init /\ [][NextThreads]_vars

\* self._mining_thread.is_alive()
mining_thread_alive == pc["mining"] \notin {"idle", "exited"}

\* BlockchainServer.start_mining: refused while the thread is alive, else
\* the flag is set and the thread started
start_mining ==
    /\ IF mining_thread_alive
       THEN /\ last' = [op |-> "start_mining", success |-> FALSE]
            /\ UNCHANGED <<server, pc>>
       ELSE /\ server' = [server EXCEPT !.mining_active = TRUE]
            /\ pc' = [pc EXCEPT !["mining"] = "loop"]
            /\ last' = [op |-> "start_mining", success |-> TRUE]
    /\ UNCHANGED <<chain, mempool, difficulty, now, consensus, network,
                 frame, p2p_vars>>

\* BlockchainServer.stop_mining: refused when no thread is alive, else the
\* flag is cleared and the thread joined for at most five seconds
stop_mining ==
    /\ IF ~mining_thread_alive
       THEN /\ last' = [op |-> "stop_mining", success |-> FALSE]
            /\ UNCHANGED server
       ELSE /\ server' = [server EXCEPT !.mining_active = FALSE]
            /\ last' = [op |-> "stop_mining", success |-> TRUE]
    /\ UNCHANGED <<chain, mempool, difficulty, now, consensus, network, pc,
                 frame, p2p_vars>>

\* BlockchainServer._mine_continuously, the head of its loop: leave when the
\* flag is clear, sleep when nothing is pending, else enter
\* self.blockchain.mine_block("miner_address") up to the search
mine_continuously ==
    /\ pc["mining"] = "loop"
    /\ IF ~server.mining_active
       THEN /\ pc' = [pc EXCEPT !["mining"] = "exited"]
            /\ last' = [op |-> "mining_exit"]
            /\ UNCHANGED frame
       ELSE IF get_transactions(mempool["local"]) = <<>>
       THEN /\ last' = [op |-> "mining_sleep"]
            /\ UNCHANGED <<pc, frame>>
       ELSE /\ frame' = [frame EXCEPT !["mining"] =
                            [block |-> mine_new_block(chain["local"],
                                                       mempool["local"], now),
                             difficulty |-> difficulty["local"],
                             miner_address |-> "miner_address"]]
            /\ pc' = [pc EXCEPT !["mining"] = "search"]
            /\ last' = [op |-> "mine_start", node |-> "local", thread |-> "mining"]
    /\ UNCHANGED <<chain, mempool, difficulty, now, consensus, server,
                 network, p2p_vars>>

\* the server's background mining thread, started and stopped through the
\* API while transactions arrive
NextMining ==
    \/ Tick
    \/ \E tx \in TxInputs("peer", now) : add_transaction("local", tx)
    \/ start_mining
    \/ stop_mining
    \/ Len(chain["local"]) < MaxSyncChain /\ mine_continuously
    \/ search_step("mining")
    \/ mine_commit("mining", "local")

SpecMining == Init /\ [][NextMining]_vars

\* the consensus loop and the force_sync callers run
\* _perform_consensus_check as threads of one process; the network has no
\* nodes or one peer with a longer chain
InitRounds ==
    /\ chain = [n \in Nodes |-> create_genesis_block(0)]
    /\ network \in
          {[network_ok |-> TRUE, nodes_ok |-> TRUE, has_nodes |-> FALSE,
            peer_chains |-> <<>>],
           [network_ok |-> TRUE, nodes_ok |-> TRUE, has_nodes |-> TRUE,
            peer_chains |-> <<Report(ExtendChain(<<>>, 2, "none", 1, 0), TRUE)>>]}
    /\ mempool = [n \in Nodes |-> <<>>]
    /\ difficulty = [n \in Nodes |-> MINING_DIFFICULTY]
    /\ now = MaxTime
    /\ last = [op |-> "init"]
    /\ consensus = [sync_active |-> FALSE, is_syncing |-> FALSE,
                    fork_resolution_in_progress |-> FALSE,
                    stats |-> [sync_attempts |-> 0, successful_syncs |-> 0,
                               failed_syncs |-> 0, forks_detected |-> 0,
                               forks_resolved |-> 0, chain_replacements |-> 0]]
    /\ server = [mining_active |-> FALSE]
    /\ pc = [t \in Threads |-> "idle"]
    /\ frame = [t \in Threads |-> None]
    /\ InitPeers

NextRounds ==
    \/ \E t \in RoundThreads : round_begin(t)
    \/ \E t \in RoundThreads : round_set(t)
    \/ \E t \in RoundThreads : round_body(t)
    \/ \E t \in RoundThreads : round_finally(t)

SpecRounds == InitRounds /\ [][NextRounds]_vars

\* the local ledger has mined a history of evenly spaced blocks and goes on
\* mining, some seconds after the last of them, up to the next adjustment
InitDifficulty ==
    /\ \E n \in MinedLengths, s \in Spacings, g \in Gaps :
          LET st == MinedState(n, s)
          IN  /\ chain = [m \in Nodes |-> IF m = "local" THEN st.chain
                                         ELSE create_genesis_block(0)]
              /\ mempool = [m \in Nodes |-> IF m = "local" THEN st.pool ELSE <<>>]
              /\ difficulty = [m \in Nodes |-> IF m = "local" THEN st.difficulty
                                              ELSE MINING_DIFFICULTY]
              /\ now = (n - 1) * s + g
    /\ last = [op |-> "init"]
    /\ InitNode

NextDifficulty ==
    \/ \E tx \in GoodTxs(now) : add_transaction("local", tx)
    \/ \E a \in MinerAddresses :
           Len(chain["local"]) % 10 # 0 /\ mine_block("local", a)

SpecDifficulty == InitDifficulty /\ [][NextDifficulty]_vars

\* a minute passes
Elapse ==
    /\ now + 60 <= MaxClock
    /\ now' = now + 60
    /\ last' = [op |-> "elapse"]
    /\ UNCHANGED <<chain, mempool, difficulty, consensus, server, network, pc,
                   frame, p2p_vars>>

\* the node at u stops answering, for good
node_down(u) ==
    /\ remote[u].up
    /\ now + 180 <= MaxClock
    /\ remote' = [remote EXCEPT ![u].up = FALSE]
    /\ last' = [op |-> "node_down", url |-> u]
    /\ UNCHANGED <<chain, mempool, difficulty, now, consensus, server, network,
                   pc, frame, p2p, client>>

\* _network_management_loop, lines 142-145: a cycle starts with the active
\* nodes of discovery
management_begin(active_nodes) ==
    /\ pc["management"] = "idle"
    /\ p2p.is_running
    /\ active_nodes # <<>> => p2p.stats.connections_made < MaxConnectionsMade
    /\ pc' = [pc EXCEPT !["management"] = "connect"]
    /\ frame' = [frame EXCEPT !["management"] = [active_nodes |-> active_nodes]]
    /\ last' = [op |-> "management_begin"]
    /\ UNCHANGED <<chain, mempool, difficulty, now, consensus, server, network,
                   p2p_vars>>

\* _connect_to_new_peers, lines 179-186: the next node of the list is skipped
\* or about to be tried; the loop ends with the list or at MAX_CONNECTIONS.
\* The frame holds the nodes the for loop has not yet reached
connect_check ==
    /\ pc["management"] = "connect"
    /\ LET f == frame["management"]
       IN  IF f.active_nodes = <<>> \/ at_max_connections(p2p)
           THEN /\ pc' = [pc EXCEPT !["management"] = "cleanup"]
                /\ frame' = [frame EXCEPT !["management"] = None]
           ELSE LET node_id == extract_node_id(Head(f.active_nodes))
                IN  IF node_id \in p2p.connected_peers
                       \/ node_id \in p2p.blacklisted_peers
                    THEN /\ frame' = [frame EXCEPT
                                         !["management"].active_nodes = Tail(@)]
                         /\ UNCHANGED pc
                    ELSE /\ pc' = [pc EXCEPT !["management"] = "connecting"]
                         /\ UNCHANGED frame
    /\ last' = [op |-> "connect_check", active_nodes |-> frame["management"].active_nodes]
    /\ UNCHANGED <<chain, mempool, difficulty, now, consensus, server, network,
                   p2p_vars>>

\* _connect_to_new_peers, line 189: _connect_to_peer(node_url)
connect_peer ==
    /\ pc["management"] = "connecting"
    /\ LET f == frame["management"]
       IN  /\ p2p' = P2PManager_connect_to_peer(p2p, Head(f.active_nodes),
                                                remote, now)
           /\ frame' = [frame EXCEPT !["management"].active_nodes = Tail(@)]
    /\ pc' = [pc EXCEPT !["management"] = "connect"]
    /\ last' = [op |-> "connect_peer"]
    /\ UNCHANGED <<chain, mempool, difficulty, now, consensus, server, network,
                   remote, client>>

\* _network_management_loop, lines 151-157: the cleanup; the topology
\* update, which writes known_peers only; and the sleep
cleanup_dead_connections ==
    /\ pc["management"] = "cleanup"
    /\ p2p' = P2PManager_cleanup_dead_connections(p2p, now)
    /\ pc' = [pc EXCEPT !["management"] = "idle"]
    /\ last' = [op |-> "cleanup_dead_connections"]
    /\ UNCHANGED <<chain, mempool, difficulty, now, consensus, server, network,
                   frame, remote, client>>

\* _heartbeat_loop, lines 165-171: one pass over the connected peers
send_heartbeat_to_peers(answers) ==
    /\ pc["heartbeat"] = "idle"
    /\ p2p.is_running
    /\ p2p' = P2PManager_send_heartbeat_to_peers(p2p, answers, now)
    /\ last' = [op |-> "send_heartbeat_to_peers", answers |-> answers]
    /\ UNCHANGED <<chain, mempool, difficulty, now, consensus, server, network,
                   pc, frame, remote, client>>

\* the while test of the loop of thread t fails
loop_exit(t) ==
    /\ pc[t] = "idle"
    /\ ~p2p.is_running
    /\ pc' = [pc EXCEPT ![t] = "exited"]
    /\ last' = [op |-> "loop_exit", thread |-> t]
    /\ UNCHANGED <<chain, mempool, difficulty, now, consensus, server, network,
                   frame, p2p_vars>>

\* P2PManager.stop, lines 103-113
stop ==
    /\ p2p.is_running
    /\ p2p' = [p2p EXCEPT !.is_running = FALSE,
                          !.connected_peers = {},
                          !.stats.connections_lost =
                              @ + Cardinality(p2p.connected_peers)]
    /\ last' = [op |-> "stop"]
    /\ UNCHANGED <<chain, mempool, difficulty, now, consensus, server, network,
                   pc, frame, remote, client>>

\* P2PManager.blacklist_peer(node_id)
blacklist_peer(node_id) ==
    /\ p2p' = P2PManager_blacklist_peer(p2p, node_id)
    /\ last' = [op |-> "blacklist_peer", node_id |-> node_id]
    /\ UNCHANGED <<chain, mempool, difficulty, now, consensus, server, network,
                   pc, frame, remote, client>>

\* P2PManager.unblacklist_peer(node_id)
unblacklist_peer(node_id) ==
    /\ p2p' = P2PManager_unblacklist_peer(p2p, node_id)
    /\ last' = [op |-> "unblacklist_peer", node_id |-> node_id]
    /\ UNCHANGED <<chain, mempool, difficulty, now, consensus, server, network,
                   pc, frame, remote, client>>

\* P2PManager.broadcast_message(message_type, data), the nodes of refusing
\* answering the call without success
broadcast_message(message_type, refusing) ==
    /\ p2p.stats.messages_sent < MaxMessagesSent
    /\ LET r == P2PManager_broadcast_message(p2p, message_type, remote, refusing)
       IN  /\ p2p' = r.p2p
           /\ last' = [op |-> "broadcast_message", message_type |-> message_type,
                       refusing |-> refusing, attempts |-> r.attempts,
                       ret |-> r.ret]
    /\ UNCHANGED <<chain, mempool, difficulty, now, consensus, server, network,
                   pc, frame, remote, client>>

\* a started P2PManager: no peer yet, both loops at their while test, and
\* every remote node answering
InitPeersStarted ==
    /\ chain = [n \in Nodes |-> create_genesis_block(0)]
    /\ mempool = [n \in Nodes |-> <<>>]
    /\ difficulty = [n \in Nodes |-> MINING_DIFFICULTY]
    /\ now = 0
    /\ last = [op |-> "init"]
    /\ consensus = [sync_active |-> FALSE, is_syncing |-> FALSE,
                    fork_resolution_in_progress |-> FALSE,
                    stats |-> [sync_attempts |-> 0, successful_syncs |-> 0,
                               failed_syncs |-> 0, forks_detected |-> 0,
                               forks_resolved |-> 0, chain_replacements |-> 0]]
    /\ server = [mining_active |-> FALSE]
    /\ network = [network_ok |-> TRUE, nodes_ok |-> TRUE, has_nodes |-> FALSE,
                  peer_chains |-> <<>>]
    /\ pc = [t \in Threads |-> "idle"]
    /\ frame = [t \in Threads |-> None]
    /\ p2p = [P2PManager_init EXCEPT !.is_running = TRUE]
    /\ remote = [u \in Urls |-> [up |-> TRUE, nodes |-> {}]]
    /\ client = BlockchainClient_init

\* the management loop, the heartbeat loop and the callers of blacklist_peer
\* and unblacklist_peer, interleaved within one minute
NextPeers ==
    \/ \E active_nodes \in ActiveLists : management_begin(active_nodes)
    \/ connect_check
    \/ connect_peer
    \/ cleanup_dead_connections
    \/ \E answers \in ProbeAnswers(p2p, remote) : send_heartbeat_to_peers(answers)
    \/ \E node_id \in BlacklistIds : blacklist_peer(node_id)
    \/ \E node_id \in BlacklistIds : unblacklist_peer(node_id)

SpecPeers == InitPeersStarted /\ [][NextPeers]_vars

\* the running manager with remote nodes that may stop answering: the
\* management loop goes from cycle to cycle, discovery naming every node or
\* none, and the clock runs on
NextEviction ==
    \/ Elapse
    \/ \E u \in Urls : node_down(u)
    \/ \E active_nodes \in {<<>>, list(Urls)} : management_begin(active_nodes)
    \/ connect_check
    \/ connect_peer
    \/ cleanup_dead_connections
    \/ \E answers \in ProbeAnswers(p2p, remote) : send_heartbeat_to_peers(answers)

SpecEviction ==
    /\ InitPeersStarted
    /\ [][NextEviction]_vars
    /\ WF_vars(Elapse)
    /\ WF_vars(\E active_nodes \in {<<>>, list(Urls)} :
                   management_begin(active_nodes))
    /\ WF_vars(connect_check)
    /\ WF_vars(connect_peer)
    /\ WF_vars(cleanup_dead_connections)

\* the peers that answer a posted message with something else than success
Refusals == {{}, {"http://peer1:5000"}, {"http://peer2:5000"}, Urls}

\* broadcasts of the running manager to the peers its management loop has
\* connected, whatever their status, whether they still answer, and whether
\* they answer the call with success
NextBroadcast ==
    \/ \E u \in Urls : node_down(u)
    \/ \E active_nodes \in {<<>>, list(Urls)} : management_begin(active_nodes)
    \/ connect_check
    \/ connect_peer
    \/ cleanup_dead_connections
    \/ \E answers \in ProbeAnswers(p2p, remote) : send_heartbeat_to_peers(answers)
    \/ \E message_type \in {"new_block", "ping"}, refusing \in Refusals :
           broadcast_message(message_type, refusing)

SpecBroadcast == InitPeersStarted /\ [][NextBroadcast]_vars

\* _make_request returns ret to its caller; connect then sets is_connected
make_request_return(c, f, ret) ==
    /\ pc' = [pc EXCEPT !["request"] = "idle"]
    /\ frame' = [frame EXCEPT !["request"] =
                     [calls |-> f.calls + 1]]
    /\ client' = IF f.caller = "connect" THEN connect_result(c, ret) ELSE c
    /\ last' = [op |-> "_make_request", method |-> f.method,
                responses |-> f.responses, sleeps |-> f.sleeps, ret |-> ret,
                is_connected |-> c.is_connected]

\* a call of _make_request(method, ...), by connect(node_url) or by one of
\* the API methods, up to its first attempt
make_request_begin(method, caller) ==
    /\ pc["request"] = "idle"
    /\ frame["request"].calls < MaxRequests
    /\ caller = "connect" => method = "GET"
    /\ LET c == IF caller = "connect"
                THEN [client EXCEPT !.has_node_url = TRUE] ELSE client
           f == [calls |-> frame["request"].calls, method |-> method,
                 caller |-> caller, attempt |-> 0, responses |-> <<>>,
                 sleeps |-> <<>>]
       IN  IF make_request_refused(c, method)
           THEN make_request_return(c, f, None)
           ELSE /\ pc' = [pc EXCEPT !["request"] = "attempt"]
                /\ frame' = [frame EXCEPT !["request"] = f]
                /\ client' = c
                /\ last' = [op |-> "make_request_begin"]
    /\ UNCHANGED <<chain, mempool, difficulty, now, consensus, server, network,
                   p2p, remote>>

\* one attempt of _make_request, which the session answers with response
make_request_step(response) ==
    /\ pc["request"] = "attempt"
    /\ LET f0 == frame["request"]
           r == make_request_attempt(client, f0.attempt, response)
           f == [f0 EXCEPT !.responses = Append(@, response)]
       IN  IF r.returned
           THEN make_request_return(r.client, f, r.ret)
           ELSE /\ frame' = [frame EXCEPT !["request"] =
                                 [f EXCEPT !.attempt = @ + 1,
                                           !.sleeps = Append(@, r.slept)]]
                /\ client' = r.client
                /\ last' = [op |-> "make_request_step"]
                /\ UNCHANGED pc
    /\ UNCHANGED <<chain, mempool, difficulty, now, consensus, server, network,
                   p2p, remote>>

\* BlockchainClient.disconnect()
disconnect ==
    /\ pc["request"] = "idle"
    /\ client.has_node_url
    /\ client' = BlockchainClient_disconnect(client)
    /\ last' = [op |-> "disconnect"]
    /\ UNCHANGED <<chain, mempool, difficulty, now, consensus, server, network,
                   pc, frame, p2p, remote>>

\* a BlockchainClient with no call made yet
InitRequests ==
    /\ chain = [n \in Nodes |-> create_genesis_block(0)]
    /\ mempool = [n \in Nodes |-> <<>>]
    /\ difficulty = [n \in Nodes |-> MINING_DIFFICULTY]
    /\ now = 0
    /\ last = [op |-> "init"]
    /\ consensus = [sync_active |-> FALSE, is_syncing |-> FALSE,
                    fork_resolution_in_progress |-> FALSE,
                    stats |-> [sync_attempts |-> 0, successful_syncs |-> 0,
                               failed_syncs |-> 0, forks_detected |-> 0,
                               forks_resolved |-> 0, chain_replacements |-> 0]]
    /\ server = [mining_active |-> FALSE]
    /\ network = [network_ok |-> TRUE, nodes_ok |-> TRUE, has_nodes |-> FALSE,
                  peer_chains |-> <<>>]
    /\ pc = [t \in Threads |-> "idle"]
    /\ frame = [t \in Threads |->
                   IF t = "request" THEN [calls |-> 0] ELSE None]
    /\ InitPeers

\* one thread using the client: connect, API calls, disconnect
NextRequests ==
    \/ \E method \in Methods, caller \in {"connect", "api"} :
           make_request_begin(method, caller)
    \/ \E response \in Responses : make_request_step(response)
    \/ disconnect

SpecRequests == InitRequests /\ [][NextRequests]_vars

\* BlockchainClient.discover_nodes(initial_nodes) up to its loop
discover_nodes_begin(initial_nodes) ==
    /\ pc["discover"] = "idle"
    /\ frame["discover"] = None
    /\ pc' = [pc EXCEPT !["discover"] = "loop"]
    /\ frame' = [frame EXCEPT !["discover"] =
                     [initial_nodes |-> initial_nodes,
                      discovered_nodes |-> {},
                      nodes_to_check |-> initial_nodes,
                      checked_nodes |-> {},
                      probes |-> <<>>]]
    /\ last' = [op |-> "discover_nodes_begin"]
    /\ UNCHANGED <<chain, mempool, difficulty, now, consensus, server, network,
                   p2p, remote, client>>

\* one iteration of the loop of discover_nodes; pop() gives any element
discover_nodes_iteration ==
    /\ pc["discover"] = "loop"
    /\ \E node_url \in frame["discover"].nodes_to_check :
           LET r == discover_iteration(client, frame["discover"], node_url,
                                       remote)
           IN  /\ client' = r.client
               /\ frame' = [frame EXCEPT !["discover"] = r.frame]
    /\ last' = [op |-> "discover_nodes_iteration"]
    /\ UNCHANGED <<chain, mempool, difficulty, now, consensus, server, network,
                   pc, p2p, remote>>

\* the loop of discover_nodes ends and the discovered nodes are returned
discover_nodes_return ==
    /\ pc["discover"] = "loop"
    /\ frame["discover"].nodes_to_check = {}
    /\ pc' = [pc EXCEPT !["discover"] = "idle"]
    /\ last' = [op |-> "discover_nodes",
                initial_nodes |-> frame["discover"].initial_nodes,
                ret |-> frame["discover"].discovered_nodes,
                probes |-> frame["discover"].probes]
    /\ UNCHANGED <<chain, mempool, difficulty, now, consensus, server, network,
                   frame, p2p, remote, client>>

\* the seeds discover_nodes is called with
Seeds == {{}, {"http://peer1:5000"}, {"http://peer1:5000", "http://peer2:5000"}}

\* a client and a network in which every node answers or does not, and
\* reports any list of nodes
InitDiscovery ==
    /\ chain = [n \in Nodes |-> create_genesis_block(0)]
    /\ mempool = [n \in Nodes |-> <<>>]
    /\ difficulty = [n \in Nodes |-> MINING_DIFFICULTY]
    /\ now = 0
    /\ last = [op |-> "init"]
    /\ consensus = [sync_active |-> FALSE, is_syncing |-> FALSE,
                    fork_resolution_in_progress |-> FALSE,
                    stats |-> [sync_attempts |-> 0, successful_syncs |-> 0,
                               failed_syncs |-> 0, forks_detected |-> 0,
                               forks_resolved |-> 0, chain_replacements |-> 0]]
    /\ server = [mining_active |-> FALSE]
    /\ network = [network_ok |-> TRUE, nodes_ok |-> TRUE, has_nodes |-> FALSE,
                  peer_chains |-> <<>>]
    /\ pc = [t \in Threads |-> "idle"]
    /\ frame = [t \in Threads |-> None]
    /\ p2p = P2PManager_init
    /\ remote \in [Urls -> [up : BOOLEAN, nodes : SUBSET Urls]]
    /\ client = BlockchainClient_init

NextDiscovery ==
    \/ \E initial_nodes \in Seeds : discover_nodes_begin(initial_nodes)
    \/ discover_nodes_iteration
    \/ discover_nodes_return

\* the calling thread keeps running
SpecDiscovery ==
    /\ InitDiscovery
    /\ [][NextDiscovery]_vars
    /\ WF_vars(discover_nodes_iteration)
    /\ WF_vars(discover_nodes_return)

\* _consensus_loop, lines 101-104: the while test holds and a round is called
consensus_loop_round ==
    /\ consensus.sync_active
    /\ round_begin("loop")

\* _consensus_loop, line 101: the while test fails
consensus_loop_exit ==
    /\ pc["loop"] = "idle"
    /\ ~consensus.sync_active
    /\ pc' = [pc EXCEPT !["loop"] = "exited"]
    /\ last' = [op |-> "consensus_loop_exit"]
    /\ UNCHANGED <<chain, mempool, difficulty, now, consensus, server, network,
                   frame, p2p_vars>>

\* ConsensusManager.stop_consensus, lines 84-88
stop_consensus ==
    /\ consensus.sync_active
    /\ consensus' = [consensus EXCEPT !.sync_active = FALSE]
    /\ last' = [op |-> "stop_consensus"]
    /\ UNCHANGED <<chain, mempool, difficulty, now, server, network, pc, frame,
                   p2p_vars>>

\* what the network answers to the rounds of the loop: a failing
\* get_network_status, or one peer that reports the chain of the local node
LoopNetworks ==
    {[network_ok |-> FALSE, nodes_ok |-> TRUE, has_nodes |-> FALSE, peer_chains |-> <<>>],
     [network_ok |-> TRUE, nodes_ok |-> TRUE, has_nodes |-> TRUE,
      peer_chains |-> <<Report(create_genesis_block(0), TRUE)>>]}

\* start_consensus and P2PManager.start have run: the three loops are at
\* their while test
InitLoops ==
    /\ chain = [n \in Nodes |-> create_genesis_block(0)]
    /\ network \in LoopNetworks
    /\ mempool = [n \in Nodes |-> <<>>]
    /\ difficulty = [n \in Nodes |-> MINING_DIFFICULTY]
    /\ now = 0
    /\ last = [op |-> "init"]
    /\ consensus = [sync_active |-> TRUE, is_syncing |-> FALSE,
                    fork_resolution_in_progress |-> FALSE,
                    stats |-> [sync_attempts |-> 0, successful_syncs |-> 0,
                               failed_syncs |-> 0, forks_detected |-> 0,
                               forks_resolved |-> 0, chain_replacements |-> 0]]
    /\ server = [mining_active |-> FALSE]
    /\ pc = [t \in Threads |-> "idle"]
    /\ frame = [t \in Threads |-> None]
    /\ p2p = [P2PManager_init EXCEPT !.is_running = TRUE]
    /\ \E up \in BOOLEAN :
          remote = [u \in Urls |->
                       [up |-> IF u = "http://peer1:5000" THEN up ELSE TRUE,
                        nodes |-> {}]]
    /\ client = BlockchainClient_init

\* the steps of the consensus loop thread
consensus_loop ==
    \/ consensus_loop_round
    \/ round_set("loop")
    \/ round_body("loop")
    \/ round_finally("loop")
    \/ consensus_loop_exit

\* the steps of the management loop thread
network_management_loop ==
    \/ \E active_nodes \in {<<>>, <<"http://peer1:5000">>} :
           management_begin(active_nodes)
    \/ connect_check
    \/ connect_peer
    \/ cleanup_dead_connections
    \/ loop_exit("management")

\* the steps of the heartbeat loop thread
heartbeat_loop ==
    \/ \E answers \in ProbeAnswers(p2p, remote) : send_heartbeat_to_peers(answers)
    \/ loop_exit("heartbeat")

NextLoops ==
    \/ consensus_loop
    \/ network_management_loop
    \/ heartbeat_loop
    \/ stop_consensus
    \/ stop

\* every thread keeps running; nothing makes a caller stop the loops
SpecLoops ==
    /\ InitLoops
    /\ [][NextLoops]_vars
    /\ WF_vars(consensus_loop)
    /\ WF_vars(network_management_loop)
    /\ WF_vars(heartbeat_loop)

\* the blocks mine_proof_of_work is called on: any index, timestamp, number
\* of transactions and starting proof
SearchBlocks ==
    {Block(index, txs, proof, GENESIS_BLOCK_HASH, t) :
        index \in 0..1, txs \in {<<>>} \cup {<<tx>> : tx \in GoodTxs(0)},
        proof \in 0..PowPeriod, t \in 0..MaxTime}

\* a thread enters b.mine_proof_of_work(d); start is the proof it began with
InitProofOfWork ==
    /\ chain = [n \in Nodes |-> create_genesis_block(0)]
    /\ mempool = [n \in Nodes |-> <<>>]
    /\ difficulty = [n \in Nodes |-> MINING_DIFFICULTY]
    /\ now = 0
    /\ last = [op |-> "init"]
    /\ consensus = [sync_active |-> FALSE, is_syncing |-> FALSE,
                    fork_resolution_in_progress |-> FALSE,
                    stats |-> [sync_attempts |-> 0, successful_syncs |-> 0,
                               failed_syncs |-> 0, forks_detected |-> 0,
                               forks_resolved |-> 0, chain_replacements |-> 0]]
    /\ server = [mining_active |-> FALSE]
    /\ network = [network_ok |-> TRUE, nodes_ok |-> TRUE, has_nodes |-> FALSE,
                  peer_chains |-> <<>>]
    /\ pc = [t \in Threads |-> IF t = "m1" THEN "search" ELSE "idle"]
    /\ \E b \in SearchBlocks, d \in 0..MaxDifficulty :
          frame = [t \in Threads |->
                      IF t = "m1"
                      THEN [block |-> b, difficulty |-> d,
                            miner_address |-> "miner", start |-> b.proof]
                      ELSE None]
    /\ InitPeers

NextProofOfWork == search_step("m1")

\* the searching thread keeps running
SpecProofOfWork ==
    InitProofOfWork /\ [][NextProofOfWork]_vars /\ WF_vars(NextProofOfWork)

\* t calls n.replace_chain(new_chain), lines 142-153: the length test against
\* the chain of that moment and the tests of the blocks; a refused chain
\* makes it return False
replace_chain_tests(t, n, new_chain) ==
    /\ pc[t] = "idle"
    /\ IF Blockchain_replace_chain(chain[n], new_chain)
       THEN /\ pc' = [pc EXCEPT ![t] = "assign"]
            /\ frame' = [frame EXCEPT ![t] = [new_chain |-> new_chain]]
            /\ last' = [op |-> "replace_chain_tests", node |-> n, thread |-> t]
       ELSE /\ last' = [op |-> "replace_chain", node |-> n, thread |-> t,
                        new_chain |-> new_chain, ret |-> FALSE]
            /\ UNCHANGED <<pc, frame>>
    /\ UNCHANGED <<chain, mempool, difficulty, now, consensus, server,
                   network, p2p_vars>>

\* t in n.replace_chain, lines 155-156: self.chain = new_chain
replace_chain_assign(t, n) ==
    /\ pc[t] = "assign"
    /\ chain' = [chain EXCEPT ![n] = frame[t].new_chain]
    /\ pc' = [pc EXCEPT ![t] = "idle"]
    /\ frame' = [frame EXCEPT ![t] = None]
    /\ last' = [op |-> "replace_chain", node |-> n, thread |-> t,
                new_chain |-> frame[t].new_chain, ret |-> TRUE]
    /\ UNCHANGED <<mempool, difficulty, now, consensus, server, network,
                   p2p_vars>>

\* threads of one process on the local ledger: transactions arrive, one
\* thread mines, one calls replace_chain with sound chains, and the
\* consensus loop runs its rounds
NextInterleaved ==
    \/ \E tx \in GoodTxs(now) : add_transaction("local", tx)
    \/ Len(chain["local"]) < MaxSyncChain /\ mine_start("m1", "local", "miner")
    \/ search_step("m1")
    \/ mine_commit("m1", "local")
    \/ \E c \in SoundChains : replace_chain_tests("replacer", "local", c)
    \/ replace_chain_assign("replacer", "local")
    \/ round_begin("loop")
    \/ round_set("loop")
    \/ round_body("loop")
    \/ round_finally("loop")

SpecInterleaved == InitRounds /\ [][NextInterleaved]_vars

\* t leaves the search in n.mine_block, blockchain.py lines 56-69 and the
\* right-hand side of mempool.py line 42: reward, append, and the list of
\* the pending transactions of that moment that the block does not hold
mine_commit_filter(t, n) ==
    /\ pc[t] = "found"
    /\ LET r == mine_commit_block(chain[n], mempool[n], difficulty[n],
                                  frame[t].block, frame[t].miner_address, now)
       IN  /\ chain' = [chain EXCEPT ![n] = r.chain]
           /\ frame' = [frame EXCEPT ![t] =
                           [block |-> r.ret, kept |-> r.pool,
                            miner_address |-> frame[t].miner_address]]
    /\ pc' = [pc EXCEPT ![t] = "store"]
    /\ last' = [op |-> "mine_commit_filter", node |-> n, thread |-> t]
    /\ UNCHANGED <<mempool, difficulty, now, consensus, server, network,
                   p2p_vars>>

\* t in n.mine_block, the assignment of mempool.py line 42 and
\* blockchain.py lines 72-73: self.transactions is bound to the list built
\* before, the difficulty is adjusted, the block returned
mine_commit_store(t, n) ==
    /\ pc[t] = "store"
    /\ mempool' = [mempool EXCEPT ![n] = frame[t].kept]
    /\ difficulty' = [difficulty EXCEPT ![n] = adjust_difficulty(chain[n], @)]
    /\ pc' = [pc EXCEPT ![t] = "idle"]
    /\ frame' = [frame EXCEPT ![t] = None]
    /\ last' = [op |-> "mine_block", node |-> n, thread |-> t,
                miner_address |-> frame[t].miner_address,
                block |-> frame[t].block]
    /\ UNCHANGED <<chain, now, consensus, server, network, p2p_vars>>

\* request threads submit transactions while one thread runs mine_block
NextPending ==
    \/ Tick
    \/ \E tx \in GoodTxs(now) : add_transaction("local", tx)
    \/ Len(chain["local"]) < MaxSyncChain /\ mine_start("m1", "local", "miner")
    \/ search_step("m1")
    \/ mine_commit_filter("m1", "local")
    \/ mine_commit_store("m1", "local")

SpecPending == Init /\ [][NextPending]_vars

\* a BlockchainClient with no URL, and remote nodes of which any may be down
InitPing ==
    /\ chain = [n \in Nodes |-> create_genesis_block(0)]
    /\ mempool = [n \in Nodes |-> <<>>]
    /\ difficulty = [n \in Nodes |-> MINING_DIFFICULTY]
    /\ now = 0
    /\ last = [op |-> "init"]
    /\ consensus = [sync_active |-> FALSE, is_syncing |-> FALSE,
                    fork_resolution_in_progress |-> FALSE,
                    stats |-> [sync_attempts |-> 0, successful_syncs |-> 0,
                               failed_syncs |-> 0, forks_detected |-> 0,
                               forks_resolved |-> 0, chain_replacements |-> 0]]
    /\ server = [mining_active |-> FALSE]
    /\ network = [network_ok |-> TRUE, nodes_ok |-> TRUE, has_nodes |-> FALSE,
                  peer_chains |-> <<>>]
    /\ pc = [t \in Threads |-> "idle"]
    /\ frame = [t \in Threads |-> None]
    /\ p2p = P2PManager_init
    /\ \E ups \in SUBSET Urls :
           remote = [u \in Urls |-> [up |-> u \in ups, nodes |-> {}]]
    /\ client = [has_node_url |-> FALSE, is_connected |-> FALSE,
                 connection_errors |-> 0, node_url |-> NoUrl]

\* client.connect(node_url)
connect(node_url) ==
    /\ client.connection_errors <= MaxConnectionErrors
    /\ client' = connect_to(client, node_url, remote).client
    /\ last' = [op |-> "connect", node_url |-> node_url]
    /\ UNCHANGED <<chain, mempool, difficulty, now, consensus, server, network,
                   pc, frame, p2p, remote>>

\* client.disconnect()
disconnect_client ==
    /\ client' = disconnect_from(client)
    /\ last' = [op |-> "disconnect"]
    /\ UNCHANGED <<chain, mempool, difficulty, now, consensus, server, network,
                   pc, frame, p2p, remote>>

\* client.ping_node(node_url)
ping_node(node_url) ==
    /\ client.connection_errors <= MaxConnectionErrors
    /\ LET r == BlockchainClient_ping_node(client, node_url, remote)
       IN  /\ client' = r.client
           /\ last' = [op |-> "ping_node", node_url |-> node_url, ret |-> r.ret]
    /\ UNCHANGED <<chain, mempool, difficulty, now, consensus, server, network,
                   pc, frame, p2p, remote>>

\* a caller selects nodes, probes nodes and disconnects, in any order
NextPing ==
    \/ \E u \in Urls : connect(u)
    \/ disconnect_client
    \/ \E u \in Urls : ping_node(u)

SpecPing == InitPing /\ [][NextPing]_vars

\* the stopper enters P2PManager.stop, lines 103-113: the flag is cleared
\* and every connected peer disconnected
stop_begin ==
    /\ pc["stopper"] = "idle"
    /\ p2p.is_running
    /\ p2p' = [p2p EXCEPT !.is_running = FALSE,
                          !.connected_peers = {},
                          !.stats.connections_lost =
                              @ + Cardinality(p2p.connected_peers)]
    /\ pc' = [pc EXCEPT !["stopper"] = "join"]
    /\ last' = [op |-> "stop_begin"]
    /\ UNCHANGED <<chain, mempool, difficulty, now, consensus, server, network,
                   frame, remote, client>>

\* P2PManager.stop, lines 115-128: each join(timeout=5) ends when its thread
\* has left its loop or when the five seconds are over, which a thread that
\* sleeps its ten seconds or waits for a peer's answers outlasts; stop returns
stop_return ==
    /\ pc["stopper"] = "join"
    /\ pc' = [pc EXCEPT !["stopper"] = "returned"]
    /\ last' = [op |-> "stop",
                joined |-> {t \in PeerThreads : pc[t] = "exited"}]
    /\ UNCHANGED <<chain, mempool, difficulty, now, consensus, server, network,
                   frame, p2p_vars>>

\* a caller stops the running manager while its two loops go on
NextStop ==
    \/ \E active_nodes \in {<<>>, <<"http://peer1:5000">>} :
           management_begin(active_nodes)
    \/ connect_check
    \/ connect_peer
    \/ cleanup_dead_connections
    \/ \E answers \in ProbeAnswers(p2p, remote) : send_heartbeat_to_peers(answers)
    \/ \E t \in PeerThreads : loop_exit(t)
    \/ stop_begin
    \/ stop_return

SpecStop == InitPeersStarted /\ [][NextStop]_vars

(******************************* claims ***********************************)
\* the hash of the head block of c
Head_hash(c) == c[Len(c)].hash

\* C1: when the peer ledger has mined k >= 1 blocks from genesis and the
\* local ledger holds only its genesis block, local.replace_chain(peer.chain)
\* returns true, and afterwards the local chain has the peer's length and
\* the peer's head hash.
C1_SyncFromGenesis ==
    [][(/\ last'.op = "replace_chain"
        /\ last'.new_chain = chain["peer"]
        /\ Len(chain["peer"]) >= 2
        /\ Len(chain["local"]) = 1)
       => (/\ last'.ret = TRUE
           /\ Len(chain'["local"]) = Len(chain["peer"])
           /\ Head_hash(chain'["local"]) = Head_hash(chain["peer"]))]_vars

\* C2: after successful add_transaction and mine_block calls on a fresh
\* ledger, validate_chain() returns true.
C2_MinedChainValidates ==
    (last.op = "validate_chain") => (last.ret = TRUE)

\* C3: the block mine_block appends stores the hash recomputed over its final
\* contents, reward transaction included.
C3_StoredHashCoversReward ==
    (last.op = "mine_block" /\ last.block # None)
        => (last.block.hash = Block_calculate_hash(last.block))

\* every block of c stores its recomputed hash, has proof > 0 and holds only
\* valid transactions, and each block names the hash of its predecessor
FullyValid(c) ==
    /\ \A i \in 1..Len(c) :
          /\ c[i].hash = Block_calculate_hash(c[i])
          /\ c[i].proof > 0
          /\ \A j \in 1..Len(c[i].transactions) :
                Transaction_is_valid(c[i].transactions[j])
    /\ \A i \in 2..Len(c) : c[i].previous_hash = c[i-1].hash

\* C4: replace_chain(candidate) returns true and installs the candidate iff
\* the candidate is longer than the current chain and fully valid; otherwise
\* it returns false and chain, mempool and difficulty are unchanged.
C4_ReplaceIffLongerAndValid ==
    [][last'.op = "replace_chain"
       => LET c == last'.new_chain
              accept == Len(c) > Len(chain["local"]) /\ FullyValid(c)
          IN  /\ last'.ret = accept
              /\ accept => chain' = [chain EXCEPT !["local"] = c]
              /\ ~accept => chain' = chain
              /\ mempool' = mempool
              /\ difficulty' = difficulty]_vars

\* a hand-built chain of three blocks has replaced the local chain
C4_Witness ==
    /\ last.op = "replace_chain"
    /\ last.ret = TRUE
    /\ chain["local"] = last.new_chain
    /\ Len(chain["local"]) = 3

\* C5: validate_chain() returns true iff every block after the genesis block
\* names its predecessor's hash, stores its recomputed hash, has proof > 0 and
\* holds only valid transactions; the genesis block is not checked.
C5_ValidateChainIff ==
    (last.op = "validate_chain")
        => LET c == chain[last.node]
           IN  last.ret =
                 (\A i \in 2..Len(c) :
                     /\ c[i].previous_hash = c[i-1].hash
                     /\ c[i].hash = Block_calculate_hash(c[i])
                     /\ c[i].proof > 0
                     /\ \A j \in 1..Len(c[i].transactions) :
                           Transaction_is_valid(c[i].transactions[j]))

\* validate_chain returned true on a chain of several blocks whose genesis
\* block is not itself a valid block
C5_Witness ==
    /\ last.op = "validate_chain"
    /\ last.ret = TRUE
    /\ Len(chain["local"]) >= 3
    /\ ~Block_is_valid(chain["local"][1])

\* a has no smaller sort key than b
KeyAtLeast(a, b) == ~KeyGreater(b, a)

\* C6: mine_block with N >= 1 pending transactions appends one block holding
\* the reward transaction at position 0 followed by the min(N, limit)
\* highest-priority pending transactions; the mempool shrinks by exactly
\* min(N, limit) and holds none of the included transactions.
C6_MineBlockContents ==
    [][(last'.op = "mine_block" /\ mempool["local"] # <<>>)
       => LET pool == mempool["local"]
              N == Len(pool)
              k == IF N < max_transactions THEN N ELSE max_transactions
              b == last'.block
              included == Tail(b.transactions)
          IN  /\ b # None
              /\ chain'["local"] = Append(chain["local"], b)
              /\ Len(b.transactions) = k + 1
              /\ b.transactions[1].sender = "0"
              /\ b.transactions[1].recipient = last'.miner_address
              /\ b.transactions[1].amount = BLOCK_REWARD
              /\ \A i \in 1..k : \E j \in 1..N : included[i] = pool[j]
              /\ \A i \in 1..k : \A j \in 1..N :
                    pool[j].hash \notin Hashes(included)
                        => KeyAtLeast(included[i], pool[j])
              /\ \A i \in 1..(k-1) : KeyAtLeast(included[i], included[i+1])
              /\ Len(mempool'["local"]) = N - k
              /\ Hashes(mempool'["local"]) \cap Hashes(included) = {}]_vars

\* a block was mined from a mempool holding more than the block limit
C6_Witness ==
    /\ last.op = "mine_block"
    /\ last.block # None
    /\ Len(last.block.transactions) = max_transactions + 1
    /\ max_size > max_transactions => mempool["local"] # <<>>

\* C7: mine_block on an empty mempool returns no block and leaves chain,
\* mempool and difficulty unchanged.
C7_MineEmptyMempool ==
    [][(last'.op = "mine_block" /\ mempool["local"] = <<>>)
       => /\ last'.block = None
          /\ chain' = chain
          /\ mempool' = mempool
          /\ difficulty' = difficulty]_vars

\* mine_block has returned no block
C7_Witness ==
    /\ last.op = "mine_block"
    /\ last.block = None
    /\ mempool["local"] = <<>>

IsWalletMade(tx) ==
    \E k \in Keys : tx = create_transaction(k, tx.recipient, tx.amount, tx.timestamp)

\* C9: a transaction made by Wallet.create_transaction with a positive amount
\* and a non-empty recipient other than the wallet passes verify_signature
\* and is_valid, and add_transaction accepts it unless the mempool is full or
\* already holds it.
C9_WalletTransactionAccepted ==
    (/\ last.op = "add_transaction"
     /\ IsWalletMade(last.tx)
     /\ last.tx.amount > 0
     /\ last.tx.recipient \notin {"", last.tx.sender})
        => /\ verify_signature(last.tx)
           /\ Transaction_is_valid(last.tx)
           /\ \/ last.ret = TRUE
              \/ Len(mempool[last.node]) >= max_size
              \/ last.tx.hash \in Hashes(mempool[last.node])

\* C10: the mempool never holds more than max_size transactions, and no two
\* pending transactions have the same hash.
C10_MempoolBoundedUnique ==
    \A n \in Nodes :
        /\ Len(mempool[n]) <= max_size
        /\ \A i, j \in 1..Len(mempool[n]) :
              mempool[n][i].hash = mempool[n][j].hash => i = j

\* a valid transaction was turned away by a full mempool
C10_Witness ==
    /\ last.op = "add_transaction"
    /\ last.ret = FALSE
    /\ Transaction_is_valid(last.tx)
    /\ last.tx.hash \notin Hashes(mempool["local"])
    /\ Len(mempool["local"]) = max_size

\* the fee of a transaction: max(0.001, amount * 0.001), in units of
\* 0.001/AmountOne
Fee(tx) == IF tx.amount > AmountOne THEN tx.amount ELSE AmountOne

\* position of a pending transaction in the mempool
PositionIn(pool, tx) == CHOOSE i \in 1..Len(pool) : pool[i] = tx

\* ordered is a permutation of pool by decreasing fee, then decreasing
\* timestamp, then insertion order
IsPrioritized(ordered, pool) ==
    /\ Len(ordered) = Len(pool)
    /\ \A i \in 1..Len(pool) : \E j \in 1..Len(ordered) : ordered[j] = pool[i]
    /\ \A i, j \in 1..Len(ordered) :
          i < j =>
            \/ Fee(ordered[i]) > Fee(ordered[j])
            \/ /\ Fee(ordered[i]) = Fee(ordered[j])
               /\ ordered[i].timestamp > ordered[j].timestamp
            \/ /\ Fee(ordered[i]) = Fee(ordered[j])
               /\ ordered[i].timestamp = ordered[j].timestamp
               /\ PositionIn(pool, ordered[i]) < PositionIn(pool, ordered[j])

\* C11: prioritize_transactions returns a permutation of the pending
\* transactions ordered by decreasing fee max(0.001, amount * 0.001), then by
\* decreasing timestamp, then by insertion order, and leaves the mempool as
\* it is; get_transactions_for_block(limit) returns the first
\* min(limit, size) entries of that ordering.
C11_PrioritizeStableOrder ==
    [][/\ last'.op = "prioritize_transactions"
          => /\ IsPrioritized(last'.ret, mempool["local"])
             /\ mempool' = mempool
       /\ last'.op = "get_transactions_for_block"
          => LET pool == mempool["local"]
                 k == IF last'.limit < Len(pool) THEN last'.limit ELSE Len(pool)
             IN  /\ Len(last'.ret) = k
                 /\ \E ordered \in {prioritize_transactions(pool)} :
                       /\ IsPrioritized(ordered, pool)
                       /\ \A i \in 1..k : last'.ret[i] = ordered[i]
                 /\ mempool' = mempool]_vars

\* two pending transactions of different amounts that both pay the floor fee
\* and have the same timestamp came back in insertion order, the smaller
\* amount first
C11_Witness ==
    /\ last.op = "prioritize_transactions"
    /\ Len(last.ret) = 2
    /\ last.ret = mempool["local"]
    /\ last.ret[1].amount < last.ret[2].amount
    /\ Fee(last.ret[1]) = Fee(last.ret[2])
    /\ last.ret[1].timestamp = last.ret[2].timestamp

\* the (block, position) pairs of the transactions of c
Committed(c) ==
    UNION {{<<i, j>> : j \in 1..Len(c[i].transactions)} : i \in 1..Len(c)}

\* the sum of the amounts of the transactions at the pairs of S
RECURSIVE AmountSum(_, _)
AmountSum(c, S) ==
    IF S = {} THEN 0
    ELSE LET p == CHOOSE q \in S : TRUE
         IN  c[p[1]].transactions[p[2]].amount + AmountSum(c, S \ {p})

\* C12: get_balance(addr) is the sum of the amounts of the committed
\* transactions whose recipient is addr minus the sum of those whose sender
\* is addr, and it changes nothing; on a ledger that mined once from genesis
\* with transactions not involving the miner, get_balance(miner) is the
\* block reward.
C12_BalanceIsReceivedMinusSent ==
    [][last'.op = "get_balance"
       => LET c == chain["local"]
              a == last'.address
              received == {p \in Committed(c) :
                              c[p[1]].transactions[p[2]].recipient = a}
              sent == {p \in Committed(c) :
                          c[p[1]].transactions[p[2]].sender = a}
          IN  /\ last'.ret = AmountSum(c, received) - AmountSum(c, sent)
              /\ UNCHANGED <<chain, mempool, difficulty>>
              /\ (last.op = "get_balance" /\ last.address = a)
                    => last'.ret = last.ret
              /\ (/\ Len(c) = 2
                  /\ c[1] = create_genesis_block(0)[1]
                  /\ c[2].transactions[1] =
                        Transaction("0", a, BLOCK_REWARD, None, c[2].timestamp)
                  /\ \A j \in 2..Len(c[2].transactions) :
                        a \notin {c[2].transactions[j].sender,
                                  c[2].transactions[j].recipient})
                    => last'.ret = BLOCK_REWARD]_vars

\* the miner's balance was read after one block was mined on top of genesis
C12_Witness ==
    /\ last.op = "get_balance"
    /\ last.address \in MinerAddresses
    /\ Len(chain["local"]) = 2
    /\ chain["local"][2].transactions[1].sender = "0"
    /\ Len(chain["local"][2].transactions) = 2
    /\ last.ret = BLOCK_REWARD

\* the responding peers that report is_valid = true
ValidPeers(peers) == {i \in 1..Len(peers) : peers[i].is_valid}

\* the greatest length a valid peer reports
MaxLen(peers) ==
    CHOOSE l \in {peers[i].chain_length : i \in ValidPeers(peers)} :
        \A i \in ValidPeers(peers) : peers[i].chain_length <= l

\* the (chain_length, latest_block_hash) buckets of valid peers at length l
BucketsAt(peers, l) ==
    {GroupKey(peers[i]) : i \in {j \in ValidPeers(peers) : peers[j].chain_length = l}}

\* the valid peers in the bucket key
Supporters(peers, key) == {i \in ValidPeers(peers) : GroupKey(peers[i]) = key}

\* a round ran its analysis on the answers of the network
Analysed == network.network_ok /\ network.nodes_ok /\ network.has_nodes

\* every peer of the bucket serves a fully valid chain of the length and
\* head hash it reports
ServesSound(peers, key) ==
    \A i \in Supporters(peers, key) :
        /\ FullyValid(peers[i].chain)
        /\ \A k \in 1..Len(peers[i].chain) : peers[i].chain[k].index = k - 1
        /\ Len(peers[i].chain) = key[1]
        /\ Head_hash(peers[i].chain) = key[2]

\* C13: when the greatest length of the valid peers exceeds the local length
\* and there is exactly one bucket at that length, whose chain is valid and
\* hash-linked, the round leaves the local chain with that length and that
\* head hash.
C13_AdoptLongerChain ==
    [][(/\ last'.op = "round"
        /\ Analysed
        /\ ValidPeers(network.peer_chains) # {}
        /\ MaxLen(network.peer_chains) > Len(chain["local"])
        /\ Cardinality(BucketsAt(network.peer_chains,
                                 MaxLen(network.peer_chains))) = 1
        /\ \A key \in BucketsAt(network.peer_chains, MaxLen(network.peer_chains)) :
              ServesSound(network.peer_chains, key))
       => \A key \in BucketsAt(network.peer_chains, MaxLen(network.peer_chains)) :
             /\ Len(chain'["local"]) = key[1]
             /\ Head_hash(chain'["local"]) = key[2]]_vars

\* the chain handed to _replace_local_chain is served by a supporter of a
\* bucket at length l that no other bucket at l outnumbers
SelectedFromBestBucket(peers, l, selected) ==
    /\ selected # None
    /\ \E key \in BucketsAt(peers, l) :
          /\ \A other \in BucketsAt(peers, l) :
                Cardinality(Supporters(peers, other))
                    <= Cardinality(Supporters(peers, key))
          /\ \E i \in Supporters(peers, key) : peers[i].chain = selected.chain

\* C14: when the greatest length of the valid peers exceeds the local length
\* and two or more buckets exist at that length, the round takes the fork
\* path, increments forks_detected by one and selects for adoption the chain
\* of a bucket of maximal peer support among them.
C14_ForkSelectsBestSupported ==
    [][(/\ last'.op = "round"
        /\ Analysed
        /\ ValidPeers(network.peer_chains) # {}
        /\ MaxLen(network.peer_chains) > Len(chain["local"])
        /\ Cardinality(BucketsAt(network.peer_chains,
                                 MaxLen(network.peer_chains))) >= 2)
       => /\ last'.action = "resolve_fork"
          /\ consensus'.stats.forks_detected = consensus.stats.forks_detected + 1
          /\ SelectedFromBestBucket(network.peer_chains,
                                    MaxLen(network.peer_chains),
                                    last'.selected)]_vars

\* a fork round selected the chain of the bucket two peers support, which
\* the single supporter of the other bucket answered before them
C14_Witness ==
    /\ last.op = "round"
    /\ last.action = "resolve_fork"
    /\ consensus.stats.forks_detected = 1
    /\ Len(network.peer_chains) = 3
    /\ ValidPeers(network.peer_chains) = {1, 2, 3}
    /\ GroupKey(network.peer_chains[1]) # GroupKey(network.peer_chains[2])
    /\ GroupKey(network.peer_chains[2]) = GroupKey(network.peer_chains[3])
    /\ last.selected = [chain |-> network.peer_chains[2].chain]
    /\ network.peer_chains[1].chain # network.peer_chains[2].chain

\* C15: when the greatest length of the valid peers equals the local length,
\* the round takes no action if the bucket of the local (length, head hash)
\* holds at least consensus_threshold of all responding peers; otherwise it
\* decides to adopt the best-supported bucket at that length and the local
\* chain is replaced by it.
C15_EqualLengthMajority ==
    [][(/\ last'.op = "round"
        /\ Analysed
        /\ ValidPeers(network.peer_chains) # {}
        /\ MaxLen(network.peer_chains) = Len(chain["local"]))
       => LET peers == network.peer_chains
              local_key == <<Len(chain["local"]), Head_hash(chain["local"])>>
          IN  IF Cardinality(Supporters(peers, local_key)) * 100
                     >= consensus_threshold_percent * Len(peers)
              THEN /\ last'.action = "no_action"
                   /\ chain' = chain
              ELSE /\ last'.action = "replace_chain"
                   /\ SelectedFromBestBucket(peers, MaxLen(peers), last'.selected)
                   /\ chain'["local"] = last'.selected.chain]_vars

\* C16: when no peer responds, when every responding peer reports
\* is_valid = false, or when the greatest length among valid peers is below
\* the local length, the round leaves the local chain, forks_detected,
\* forks_resolved and chain_replacements unchanged; and a chain is selected
\* for adoption only if a peer reporting is_valid = true serves it.
C16_NoActionCases ==
    [][last'.op = "round"
       => LET peers == network.peer_chains
          IN  /\ (\/ ~Analysed
                  \/ peers = <<>>
                  \/ ValidPeers(peers) = {}
                  \/ MaxLen(peers) < Len(chain["local"]))
                    => /\ chain' = chain
                       /\ last'.selected = None
                       /\ consensus'.stats.forks_detected
                              = consensus.stats.forks_detected
                       /\ consensus'.stats.forks_resolved
                              = consensus.stats.forks_resolved
                       /\ consensus'.stats.chain_replacements
                              = consensus.stats.chain_replacements
              /\ last'.selected # None
                    => \E i \in ValidPeers(peers) :
                          peers[i].chain = last'.selected.chain]_vars

\* a round ended without action although peers, all of them reporting
\* is_valid = false, named two different chains longer than the local one
C16_Witness ==
    /\ last.op = "round"
    /\ last.action = "no_action"
    /\ Len(network.peer_chains) >= 2
    /\ ValidPeers(network.peer_chains) = {}
    /\ \A i \in 1..Len(network.peer_chains) :
          network.peer_chains[i].chain_length > Len(chain["local"])
    /\ GroupKey(network.peer_chains[1]) # GroupKey(network.peer_chains[2])

\* C17: whatever the peers answer, the local chain is only ever replaced by
\* a chain whose blocks are hash-linked, carry the indices 0..n-1 and pass
\* is_valid, also when the peer reported is_valid = true.
C17_OnlyRevalidatedChains ==
    [][chain'["local"] # chain["local"]
       => /\ FullyValid(chain'["local"])
          /\ \A k \in 1..Len(chain'["local"]) : chain'["local"][k].index = k - 1]_vars

\* a round selected the longer chain of a peer that reported is_valid = true
\* although its link is broken, and the local chain stayed as it was
C17_Witness ==
    /\ last.op = "round"
    /\ last.action = "replace_chain"
    /\ last.selected # None
    /\ ~FullyValid(last.selected.chain)
    /\ Len(last.selected.chain) > Len(chain["local"])
    /\ last.ret = FALSE
    /\ consensus.stats.chain_replacements = 0

\* the threads between setting and clearing is_syncing
InRound == {t \in RoundThreads : pc[t] \in {"body", "finally"}}

\* C18: with the consensus loop and any number of force_sync callers, at
\* most one thread is between setting and clearing is_syncing.
C18_RoundsNeverOverlap == Cardinality(InRound) <= 1

\* C19: under any interleaving of mine_block calls of several threads and
\* replace_chain calls on one ledger, every block after the first names the
\* stored hash of its predecessor and has the predecessor's index plus one.
C19_LinkedUnderConcurrency ==
    \A i \in 2..Len(chain["local"]) :
        /\ chain["local"][i].previous_hash = chain["local"][i-1].hash
        /\ chain["local"][i].index = chain["local"][i-1].index + 1

\* C20: once the mining flag is cleared while a proof-of-work search runs,
\* the search ends at its next nonce increment without a block being
\* appended; it does not go on until a valid nonce is found.
C20_StopMiningCancelsSearch ==
    [][(~server.mining_active /\ pc["mining"] \in {"search", "found"})
       => /\ chain' = chain
          /\ (pc'["mining"] # pc["mining"] \/ frame'["mining"] # frame["mining"])
                => pc'["mining"] \in {"loop", "exited"}]_vars


\* C21: a mine_block call changes the difficulty only when it appended a
\* block that made the chain length a multiple of 10; then, with total the
\* timestamp of the new block minus that of the ninth block before it (nine
\* times the mean delta), the difficulty goes up by one when total < 9 * 30,
\* down by one but not below 1 when total > 9 * 120, and stays otherwise;
\* the difficulty is at least 1 in every state.
C21_DifficultyAdjustment ==
    /\ [](difficulty["local"] >= 1)
    /\ [][last'.op = "mine_block" /\ last'.node = "local" =>
            LET c == chain'["local"]
                d == difficulty["local"]
                e == difficulty'["local"]
                adjusts == Len(c) = Len(chain["local"]) + 1 /\ Len(c) % 10 = 0
                total == c[Len(c)].timestamp - c[Len(c) - 9].timestamp
            IN  /\ e # d => adjusts
                /\ adjusts /\ total < 9 * 30 => e = d + 1
                /\ adjusts /\ total > 9 * 120 =>
                       /\ e \in {d - 1, 1}
                       /\ d > 1 => e = d - 1
                /\ adjusts /\ total >= 9 * 30 /\ total <= 9 * 120 => e = d]_vars

\* the fortieth block was mined more than 9 * 120 seconds after the
\* thirty-first with the difficulty already at 1, and the difficulty is 1
C21_Witness ==
    /\ last.op = "mine_block" /\ last.block # None
    /\ Len(chain["local"]) = 40
    /\ chain["local"][40].timestamp - chain["local"][31].timestamp > 9 * 120
    /\ \E s \in Spacings : MinedState(39, s).chain = SubSeq(chain["local"], 1, 39)
                             /\ MinedState(39, s).difficulty = 1
    /\ difficulty["local"] = 1


\* C22: a node_id that blacklist_peer was called with, and unblacklist_peer
\* was not called with since, is not in the connected set.
C22_BlacklistedNeverConnected ==
    p2p.connected_peers \cap p2p.blacklisted_peers = {}


\* the peers of the table whose last heartbeat is more than 120 seconds old
Stale == {node_id \in DOMAIN p2p.peers :
             now - p2p.peers[node_id].last_heartbeat > 120}

\* the table holds an entry for the node at u
InTable(u) == \E node_id \in DOMAIN p2p.peers : p2p.peers[node_id].url = u

\* C23: after _cleanup_dead_connections no peer that was stale by more than
\* 120 seconds is in the connected set or in the peer table, and every other
\* peer is in both as before, with the same entry; a peer of the table whose
\* node has stopped answering is eventually out of the table.
C23_StalePeersEvicted ==
    /\ [][last'.op = "cleanup_dead_connections" =>
            /\ \A node_id \in Stale :
                   /\ node_id \notin p2p'.connected_peers
                   /\ node_id \notin DOMAIN p2p'.peers
            /\ \A node_id \in DOMAIN p2p.peers \ Stale :
                   /\ node_id \in DOMAIN p2p'.peers
                   /\ p2p'.peers[node_id] = p2p.peers[node_id]
            /\ p2p'.connected_peers \ Stale = p2p.connected_peers \ Stale
            /\ DOMAIN p2p'.peers \subseteq DOMAIN p2p.peers]_vars
    /\ \A u \in Urls :
           (InTable(u) /\ ~remote[u].up) ~> (~InTable(u) \/ remote[u].up)

\* a cleanup has evicted a peer and kept another
C23_Witness ==
    /\ last.op = "cleanup_dead_connections"
    /\ p2p.stats.connections_lost > 0
    /\ DOMAIN p2p.peers # {}
    /\ Cardinality(DOMAIN p2p.peers) < p2p.stats.connections_made


\* C24: a heartbeat pass leaves every connected peer whose probe succeeded
\* with status connected and last_heartbeat at the current time, and every
\* connected peer whose probe failed with status unresponsive or disconnected
\* and its last_heartbeat as it was; the connected set and the keys of the
\* peer table are as before, and so are the entries of the other peers.
C24_HeartbeatEffect ==
    [][last'.op = "send_heartbeat_to_peers" =>
          /\ p2p'.connected_peers = p2p.connected_peers
          /\ DOMAIN p2p'.peers = DOMAIN p2p.peers
          /\ \A node_id \in DOMAIN p2p.peers :
                LET old == p2p.peers[node_id]
                    new == p2p'.peers[node_id]
                IN  IF node_id \notin p2p.connected_peers THEN new = old
                    ELSE IF last'.answers[node_id] = "ok"
                    THEN /\ new.status = "connected"
                         /\ new.last_heartbeat = now
                    ELSE /\ new.status \in {"unresponsive", "disconnected"}
                         /\ new.last_heartbeat = old.last_heartbeat]_vars

\* a pass, a minute or more after its connection, in which a connected peer
\* answered client.connect but not health_check: it is unresponsive, still
\* connected, with the last_heartbeat of its connection
C24_Witness ==
    /\ last.op = "send_heartbeat_to_peers"
    /\ \E node_id \in p2p.connected_peers :
          /\ last.answers[node_id] = "no_health"
          /\ p2p.peers[node_id].status = "unresponsive"
          /\ p2p.peers[node_id].last_heartbeat < now


\* C25: the connected set never holds more than MAX_CONNECTIONS peers.
C25_ConnectedBounded == Cardinality(p2p.connected_peers) <= MAX_CONNECTIONS

\* _connect_to_new_peers has left its loop at MAX_CONNECTIONS with a node of
\* the list not yet tried, which is neither connected nor blacklisted
C25_Witness ==
    /\ last.op = "connect_check"
    /\ pc["management"] = "cleanup"
    /\ last.active_nodes # <<>>
    /\ extract_node_id(Head(last.active_nodes)) \notin
           p2p.connected_peers \cup p2p.blacklisted_peers
    /\ Cardinality(p2p.connected_peers) = MAX_CONNECTIONS


\* the connected peers a message of the kind reaches with success: known with
\* status connected, answering, and not refusing the call
Delivered(message_type, refusing) ==
    {node_id \in p2p.connected_peers :
        /\ node_id \in DOMAIN p2p.peers
        /\ p2p.peers[node_id].status = "connected"
        /\ remote[p2p.peers[node_id].url].up
        /\ p2p.peers[node_id].url \notin refusing
        /\ message_type \in {"new_transaction", "new_block", "chain_update"}}

\* C26: broadcast_message calls _send_message_to_peer once for every peer of
\* the connected set and for nothing else, whichever of them fail; it returns
\* the number of peers that were delivered to, which is between 0 and the
\* size of the connected set; messages_sent grows by that number; the
\* connected set and the peer table are unchanged.
C26_BroadcastBestEffort ==
    [][last'.op = "broadcast_message" =>
          LET attempts == last'.attempts
          IN  /\ \A node_id \in p2p.connected_peers :
                    Cardinality({i \in 1..Len(attempts) : attempts[i] = node_id}) = 1
              /\ Len(attempts) = Cardinality(p2p.connected_peers)
              /\ last'.ret = Cardinality(Delivered(last'.message_type,
                                                   last'.refusing))
              /\ last'.ret >= 0 /\ last'.ret <= Cardinality(p2p.connected_peers)
              /\ p2p'.stats.messages_sent = p2p.stats.messages_sent + last'.ret
              /\ p2p'.connected_peers = p2p.connected_peers
              /\ p2p'.peers = p2p.peers]_vars

\* a broadcast to two connected peers of which the first did not take the
\* message and the second did
C26_Witness ==
    /\ last.op = "broadcast_message"
    /\ Len(last.attempts) = 2
    /\ last.attempts[1] \notin Delivered(last.message_type, last.refusing)
    /\ last.attempts[2] \in Delivered(last.message_type, last.refusing)
    /\ last.ret = 1


\* C27: a call of _make_request makes at most 1 + max_retries attempts; it
\* sleeps retry_index * retry_delay seconds before retry number retry_index;
\* when an attempt is answered with HTTP 200 and a JSON body it is the last
\* attempt and its envelope is returned; when every attempt failed, None is
\* returned and is_connected is false at the return.
C27_RequestRetry ==
    [][last'.op = "_make_request" =>
          LET responses == last'.responses
              sleeps == last'.sleeps
          IN  /\ Len(responses) <= 1 + max_retries
              /\ Len(sleeps) = IF responses = <<>> THEN 0 ELSE Len(responses) - 1
              /\ \A retry_index \in 1..Len(sleeps) :
                    sleeps[retry_index] = retry_index * retry_delay
              /\ \A i \in 1..Len(responses) :
                    responses[i] = "ok" =>
                        i = Len(responses) /\ last'.ret = Envelope
              /\ (/\ Len(responses) = 1 + max_retries
                  /\ \A i \in 1..Len(responses) :
                        responses[i] \notin {"ok", "bad_json"})
                 => last'.ret = None /\ ~last'.is_connected]_vars

\* what the code does guarantee after the last failed attempt: None is
\* returned, and is_connected is false when that attempt raised
LastAttemptRaised ==
    [][last'.op = "_make_request" =>
          LET responses == last'.responses
          IN  (/\ Len(responses) = 1 + max_retries
               /\ \A i \in 1..Len(responses) :
                     responses[i] \notin {"ok", "bad_json"})
              => /\ last'.ret = None
                 /\ responses[Len(responses)] # "http_error"
                        => ~last'.is_connected]_vars

\* every started call of _make_request returns
RequestTerminates == (pc["request"] = "attempt") ~> (pc["request"] = "idle")

SpecRequestsFair ==
    SpecRequests /\ WF_vars(\E response \in Responses : make_request_step(response))


\* the URLs that a chain of answering nodes' reported lists leads to from S
RECURSIVE Followed(_)
Followed(S) ==
    LET T == S \cup {v \in Urls : \E u \in S : remote[u].up /\ v \in remote[u].nodes}
    IN  IF T = S THEN S ELSE Followed(T)

\* C28: discover_nodes returns for every peer graph, cyclic ones included; it
\* calls connect at most once for each URL; what it returns is exactly the
\* set of answering nodes that a chain of answering nodes' reported node
\* lists leads to from a seed.
C28_DiscoveryCrawl ==
    /\ [][last'.op = "discover_nodes" =>
             /\ \A i, j \in 1..Len(last'.probes) :
                   last'.probes[i] = last'.probes[j] => i = j
             /\ last'.ret = {u \in Followed(last'.initial_nodes) : remote[u].up}
       ]_vars
    /\ (pc["discover"] = "loop") ~> (last.op = "discover_nodes")

\* a crawl over a graph with a cycle between two answering nodes, one of
\* which lists a node that does not answer and that alone lists itself
C28_Witness ==
    /\ last.op = "discover_nodes"
    /\ last.initial_nodes = {"http://peer1:5000"}
    /\ remote["http://peer1:5000"].up /\ remote["http://peer2:5000"].up
    /\ ~remote["http://peer3:5000"].up
    /\ remote["http://peer1:5000"].nodes = {"http://peer2:5000"}
    /\ remote["http://peer2:5000"].nodes = {"http://peer1:5000", "http://peer3:5000"}
    /\ remote["http://peer3:5000"].nodes = {"http://peer3:5000"}
    /\ last.ret = {"http://peer1:5000", "http://peer2:5000"}
    /\ Len(last.probes) = 3


\* the collected peers that report the local length and head hash
Matching == {i \in 1..Len(network.peer_chains) :
                /\ network.peer_chains[i].chain_length = Len(chain["local"])
                /\ network.peer_chains[i].latest_block_hash
                       = get_latest_block(chain["local"]).hash}

\* whether the call found no peer, or collected no peer chain
NothingCollected(peer_nodes) ==
    \/ peer_nodes = "empty"
    \/ peer_nodes = "None" /\ (~network.nodes_ok \/ ~network.has_nodes)
    \/ network.peer_chains = <<>>

\* is_synced_with_network leaves the chain, the mempool, the difficulty, the
\* statistics and is_syncing as they were
SyncedReadOnly ==
    /\ chain' = chain /\ mempool' = mempool /\ difficulty' = difficulty
    /\ consensus'.stats = consensus.stats
    /\ consensus'.is_syncing = consensus.is_syncing

\* C29: is_synced_with_network changes neither the local chain, the mempool,
\* the difficulty, the statistics counters nor is_syncing; it returns true
\* exactly when no peer chain was collected (there being no peers, or none
\* answering), or the collected peers reporting the local (length, head
\* hash) are at least consensus_threshold of the collected ones.
C29_SyncedCheck ==
    [][last'.op = "is_synced_with_network" =>
          /\ SyncedReadOnly
          /\ last'.ret <=>
                \/ NothingCollected(last'.peer_nodes)
                \/ Cardinality(Matching) * 100
                       >= consensus_threshold_percent * Len(network.peer_chains)
      ]_vars

\* what holds of the code: the same, but a failing get_nodes gives false
SyncedUnlessNodesFail ==
    [][last'.op = "is_synced_with_network" =>
          /\ SyncedReadOnly
          /\ last'.ret <=>
                /\ ~(last'.peer_nodes = "None" /\ ~network.nodes_ok)
                /\ \/ NothingCollected(last'.peer_nodes)
                   \/ Cardinality(Matching) * 100
                          >= consensus_threshold_percent * Len(network.peer_chains)
      ]_vars


\* C30: a loop leaves only once its flag is cleared, whatever failed in its
\* rounds; is_syncing, once set by a round, is reset; while sync_active holds
\* the consensus loop goes on to its next round (up to MaxRounds rounds),
\* and while is_running holds the management loop always begins another
\* cycle and the heartbeat loop always makes another pass; after
\* stop_consensus or stop the loops leave.
C30_LoopResilience ==
    /\ [](pc["loop"] = "exited" => ~consensus.sync_active)
    /\ [](\A t \in PeerThreads : pc[t] = "exited" => ~p2p.is_running)
    /\ consensus.is_syncing ~> ~consensus.is_syncing
    /\ \A n \in 0..(MaxRounds - 1) :
          (consensus.sync_active /\ consensus.stats.sync_attempts = n)
              ~> (~consensus.sync_active \/ consensus.stats.sync_attempts = n + 1)
    /\ []<>(~p2p.is_running \/ last.op = "management_begin")
    /\ []<>(~p2p.is_running \/ last.op = "send_heartbeat_to_peers")
    /\ (~consensus.sync_active) ~> (pc["loop"] = "exited")
    /\ \A t \in PeerThreads : (~p2p.is_running) ~> (pc[t] = "exited")

\* the consensus loop in its second round after a round that failed, and
\* the management loop past a connection attempt that failed
C30_Witness ==
    /\ consensus.sync_active /\ p2p.is_running
    /\ consensus.stats.failed_syncs = 1
    /\ consensus.stats.sync_attempts = 2
    /\ pc["loop"] = "body"
    /\ p2p.stats.connections_made = 0
    /\ ~remote["http://peer1:5000"].up
    /\ last.op = "connect_peer"

\* C31: stats['chain_replacements'] starts at 0 and grows by one exactly in
\* the steps in which a consensus round changes the local chain;
\* stats['forks_resolved'] starts at 0 and grows by one exactly in the steps
\* in which a round that resolves a fork replaces the local chain by the
\* chain it selected.
C31_CountersFaithful ==
    /\ consensus.stats.chain_replacements = 0
    /\ consensus.stats.forks_resolved = 0
    /\ [][/\ consensus'.stats.chain_replacements
                = consensus.stats.chain_replacements
                  + (IF last'.op = "round" /\ chain'["local"] # chain["local"]
                     THEN 1 ELSE 0)
          /\ consensus'.stats.forks_resolved
                = consensus.stats.forks_resolved
                  + (IF /\ last'.op = "round"
                        /\ last'.action = "resolve_fork"
                        /\ chain'["local"] # chain["local"]
                        /\ last'.selected = [chain |-> chain'["local"]]
                     THEN 1 ELSE 0)]_vars

\* a round that resolved a fork by selecting a chain longer than the local
\* one, which _replace_local_chain did not install
C31_Witness ==
    /\ last.op = "round"
    /\ last.action = "resolve_fork"
    /\ last.selected # None
    /\ Len(last.selected.chain) > Len(chain["local"])
    /\ ~last.ret
    /\ consensus.stats.forks_detected = 1
    /\ consensus.stats.forks_resolved = 0
    /\ consensus.stats.chain_replacements = 0

C33_LengthMonotone ==
    /\ [](Len(chain["local"]) >= 1)
    /\ [][/\ Len(chain'["local"]) >= Len(chain["local"])
          /\ last'.op = "mine_block"
                => Len(chain'["local"]) \in {Len(chain["local"]),
                                             Len(chain["local"]) + 1}
          /\ (last'.op = "replace_chain" /\ ~last'.ret)
                => chain'["local"] = chain["local"]]_vars

\* C34: in every state reached through mine_block and replace_chain with
\* arbitrary candidate chains, each block of the local chain carries its
\* position as its index, and the first block is a genesis block whose
\* previous_hash is the all-zero digest.
C34_IndicesMatchPositions ==
    LET c == chain["local"]
    IN  /\ \A i \in 1..Len(c) : c[i].index = i - 1
        /\ \E t \in 0..MaxTime : c[1] = create_genesis_block(t)[1]
        /\ c[1].previous_hash = GENESIS_BLOCK_HASH

\* the hashes of the transactions of block b that are not rewards
CommittedHashes(b) ==
    {b.transactions[j].hash : j \in {k \in 1..Len(b.transactions) :
                                        b.transactions[k].sender # "0"}}

\* C35: in every state reached through add_transaction, mine_block and
\* replace_chain, no transaction other than a reward is in two blocks of the
\* local chain, and no transaction of a block of the chain is pending in the
\* mempool.
C35_NoDoubleCommit ==
    LET c == chain["local"]
    IN  /\ \A i, j \in 1..Len(c) :
               i # j => CommittedHashes(c[i]) \cap CommittedHashes(c[j]) = {}
        /\ \A i \in 1..Len(c), k \in 1..Len(mempool["local"]) :
               mempool["local"][k].hash \notin CommittedHashes(c[i])

\* the addresses that hold or receive coins in the runs of the ledger
LedgerAddresses ==
    {public_key(k) : k \in Keys} \cup {"recipient"} \cup MinerAddresses

\* C36: on a fresh ledger driven by add_transaction and mine_block, the
\* balance of every address other than the coinbase sender "0" is never
\* negative, and no block is appended with a transaction whose amount is more
\* than the balance its sender had in the chain before.
C36_NoOverdraft ==
    /\ [](\A a \in LedgerAddresses :
              Blockchain_get_balance(chain["local"], a) >= 0)
    /\ [][Len(chain'["local"]) > Len(chain["local"])
             => LET b == chain'["local"][Len(chain'["local"])]
                IN  \A j \in 1..Len(b.transactions) :
                        b.transactions[j].sender # "0"
                            => b.transactions[j].amount
                                  <= Blockchain_get_balance(chain["local"],
                                         b.transactions[j].sender)]_vars

\* the transactions that are pending in the local mempool or held by a block
\* of the local chain
Held ==
    {mempool["local"][k] : k \in 1..Len(mempool["local"])}
        \cup UNION {{chain["local"][i].transactions[j] :
                        j \in 1..Len(chain["local"][i].transactions)} :
                    i \in 1..Len(chain["local"])}

\* C37: however add_transaction interleaves with a running mine_block, a
\* transaction that add_transaction accepted is pending or in a block from
\* then on, and what mine_block takes out of the mempool is in the block it
\* appended.
C37_NoPendingLost ==
    [][/\ (last'.op = "add_transaction" /\ last'.ret) => last'.tx \in Held'
       /\ Held \subseteq Held'
       /\ (last'.op = "mine_block" /\ last'.block # None)
             => \A k \in 1..Len(mempool["local"]) :
                    \/ \E m \in 1..Len(mempool'["local"]) :
                           mempool'["local"][m] = mempool["local"][k]
                    \/ \E j \in 1..Len(last'.block.transactions) :
                           last'.block.transactions[j] = mempool["local"][k]]_vars

\* C38: whatever the probe meets, ping_node returns with the client's
\* node_url as it was before the call.
C38_PingKeepsTarget ==
    [][last'.op = "ping_node" => client'.node_url = client.node_url]_vars

\* C39: whenever no round is in progress, sync_attempts is the sum of
\* successful_syncs and failed_syncs: every round that started has added one
\* to exactly one of the two, the rounds that find no connected node and the
\* rounds that raise included.
C39_AttemptAccounting ==
    ~consensus.is_syncing
        => consensus.stats.sync_attempts
              = consensus.stats.successful_syncs + consensus.stats.failed_syncs

\* C40: once stop() has returned, the connected set is empty and stays
\* empty, and no peer is added to the peer table, however a management cycle
\* or a heartbeat cycle that ran when stop() was called interleaves with it.
C40_StoppedStaysEmpty ==
    /\ [](pc["stopper"] = "returned" => p2p.connected_peers = {})
    /\ [][pc["stopper"] = "returned"
             => DOMAIN p2p'.peers \subseteq DOMAIN p2p.peers]_vars

====
